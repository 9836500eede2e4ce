--------------------------- MODULE TimerTaskProofs ---------------------------
(***************************************************************************)
(* The timer service, for any number of blocks, handlers, periods, calls   *)
(* and threads: its types, the safety of its cursor, the order of its      *)
(* list, the refinement of TimerContract, and what the history variables   *)
(* tell of its visits and calls.                                           *)
(***************************************************************************)
EXTENDS TimerTaskHistory, LinkedListProofs

USE SlotAssumption, HandlerAssumption, PeriodAssumption, BoundAssumption,
    PoisonAssumption

Active == {"switch", "work", "call", "run", "finish", "dying"}

\* the nodes of the task list
Ring == used \cup {ListHead}

(***************************************************************************)
(* The strengthening.  In m, s is the list of timer_task_list, holds the   *)
(* blocks of S, and is in the order in which they were added.  That the    *)
(* cursor's next is not its task, and is no older, follows from the order. *)
(***************************************************************************)
TaskList(m, S, s) ==
    /\ IsList(m, ListHead, s)
    /\ S = {s[i] : i \in 1 .. Len(s)}
    /\ \A i, j \in 1 .. Len(s) : i < j => born[s[i]] < born[s[j]]

InOrder(m, S) == \E s : TaskList(m, S, s)

AddedBefore(a, b) == b # ListHead => born[a] < born[b]

CursorOrdered ==
    pc \in Active => cur \in used /\ nxt \in Ring /\ AddedBefore(cur, nxt)

IInv ==
    /\ TypeOK
    /\ InOrder(mem, used)
    /\ \A n \in used : born[n] <= calls
    /\ CursorOrdered

-----------------------------------------------------------------------------
(* What the order tells of the words that a walk reads.                    *)

LEMMA TaskAt ==
    ASSUME TypeOK, NEW m, NEW S \in SUBSET Slot, NEW s, TaskList(m, S, s)
    PROVE  /\ Len(s) \in Nat /\ ListHead \in Node
           /\ \A i \in 1 .. Len(s) : s[i] \in S /\ s[i] # ListHead /\ born[s[i]] \in Nat
           /\ m.next[ListHead] = Neighbour(s, ListHead, 1)
           /\ \A i \in 1 .. Len(s) : m.next[s[i]] = Neighbour(s, ListHead, i + 1)
<1>1. IsList(m, ListHead, s) BY DEF TaskList
<1>2. /\ Len(s) \in Nat /\ Neighbour(s, ListHead, 0) = ListHead
      /\ \A i \in 1 .. Len(s) :
            Neighbour(s, ListHead, i) = s[i] /\ s[i] \in Node \ {ListHead}
  BY <1>1, Neighbours
<1>3. \A i \in 0 .. Len(s) :
         m.next[Neighbour(s, ListHead, i)] = Neighbour(s, ListHead, i + 1)
  BY <1>1 DEF IsList
<1>4. 0 \in 0 .. Len(s) /\ \A i \in 1 .. Len(s) : i \in 0 .. Len(s) BY <1>2
<1>5. m.next[ListHead] = Neighbour(s, ListHead, 0 + 1) BY <1>2, <1>3, <1>4
<1>6. \A i \in 1 .. Len(s) : m.next[s[i]] = Neighbour(s, ListHead, i + 1)
  BY <1>2, <1>3, <1>4
<1> QED BY <1>2, <1>5, <1>6 DEF TaskList, TypeOK

\* the next word of an entry leads to the entry that was added after it
LEMMA Succession ==
    ASSUME TypeOK, NEW m, NEW S \in SUBSET Slot, InOrder(m, S), NEW a \in S
    PROVE  /\ m.next[a] \in S \cup {ListHead}
           /\ AddedBefore(a, m.next[a])
           /\ \A b \in S : /\ born[a] < born[b]
                              => m.next[a] # ListHead /\ born[m.next[a]] <= born[b]
                           /\ born[a] = born[b] => a = b
<1>1. PICK s : TaskList(m, S, s) BY DEF InOrder
<1>2. /\ Len(s) \in Nat
      /\ \A i \in 1 .. Len(s) : s[i] \in S /\ s[i] # ListHead /\ born[s[i]] \in Nat
      /\ \A i \in 1 .. Len(s) : m.next[s[i]] = Neighbour(s, ListHead, i + 1)
  <2> HIDE DEF TaskList, InOrder
  <2> QED BY ONLY <1>1, TaskAt, TypeOK, S \in SUBSET Slot
<1>3. /\ S = {s[i] : i \in 1 .. Len(s)}
      /\ \A i, j \in 1 .. Len(s) : i < j => born[s[i]] < born[s[j]]
  BY <1>1 DEF TaskList
<1>4. PICK i \in 1 .. Len(s) : a = s[i] BY <1>3
<1>5. m.next[a] = IF i = Len(s) THEN ListHead ELSE s[i+1]
  BY <1>2, <1>4 DEF Neighbour
<1>6. m.next[a] \in S \cup {ListHead} /\ AddedBefore(a, m.next[a])
  <2>1. CASE i = Len(s) BY <1>5, <2>1 DEF AddedBefore
  <2>2. CASE i # Len(s)
    <3>1. i + 1 \in 1 .. Len(s) /\ i < i + 1 BY <1>2, <2>2
    <3> QED BY <1>2, <1>3, <1>4, <1>5, <2>2, <3>1 DEF AddedBefore
  <2> QED BY <2>1, <2>2
<1>7. ASSUME NEW b \in S
      PROVE  /\ born[a] < born[b] => m.next[a] # ListHead /\ born[m.next[a]] <= born[b]
             /\ born[a] = born[b] => a = b
  <2>1. PICK j \in 1 .. Len(s) : b = s[j] BY <1>3
  <2>2. /\ born[a] \in Nat /\ born[b] \in Nat
        /\ i < j => born[a] < born[b]
        /\ j < i => born[b] < born[a]
    BY <1>2, <1>3, <1>4, <2>1
  <2>3. born[a] = born[b] => a = b BY <1>2, <1>4, <2>1, <2>2
  <2>4. ASSUME born[a] < born[b]
        PROVE  m.next[a] # ListHead /\ born[m.next[a]] <= born[b]
    <3>1. i < j BY <1>2, <1>4, <2>1, <2>2, <2>4
    <3>2. m.next[a] = s[i+1] /\ i + 1 \in 1 .. Len(s) /\ i + 1 <= j BY <1>2, <1>5, <3>1
    <3>3. born[s[i+1]] <= born[s[j]]
      <4>1. CASE i + 1 = j BY <1>2, <3>2, <4>1
      <4>2. CASE i + 1 < j
        <5>1. born[s[i+1]] < born[s[j]] BY <1>3, <3>2, <4>2
        <5>2. born[s[i+1]] \in Nat /\ born[s[j]] \in Nat BY <1>2, <3>2
        <5> QED BY <5>1, <5>2
      <4> QED BY <1>2, <3>2, <4>1, <4>2
    <3> QED BY <1>2, <2>1, <3>2, <3>3
  <2> QED BY <2>3, <2>4
<1> QED BY <1>6, <1>7

\* the head leads to the entry that was added first
LEMMA FirstEntry ==
    ASSUME TypeOK, NEW m, NEW S \in SUBSET Slot, InOrder(m, S)
    PROVE  /\ m.next[ListHead] \in S \cup {ListHead}
           /\ \A n \in S : m.next[ListHead] # ListHead /\ born[m.next[ListHead]] <= born[n]
<1>1. PICK s : TaskList(m, S, s) BY DEF InOrder
<1>2. /\ Len(s) \in Nat
      /\ \A i \in 1 .. Len(s) : s[i] \in S /\ s[i] # ListHead /\ born[s[i]] \in Nat
      /\ m.next[ListHead] = Neighbour(s, ListHead, 1)
  BY <1>1, TaskAt
<1>3. /\ S = {s[i] : i \in 1 .. Len(s)}
      /\ \A i, j \in 1 .. Len(s) : i < j => born[s[i]] < born[s[j]]
  BY <1>1 DEF TaskList
<1>4. CASE Len(s) = 0
  <2>1. S = {} /\ m.next[ListHead] = ListHead BY <1>2, <1>3, <1>4 DEF Neighbour
  <2> QED BY <2>1
<1>5. CASE Len(s) > 0
  <2>1. m.next[ListHead] = s[1] /\ 1 \in 1 .. Len(s) BY <1>2, <1>5 DEF Neighbour
  <2>2. ASSUME NEW n \in S PROVE born[s[1]] <= born[n]
    <3>1. PICK i \in 1 .. Len(s) : n = s[i] BY <1>3
    <3>2. CASE i = 1 BY <1>2, <3>1, <3>2
    <3>3. CASE 1 < i BY <1>2, <1>3, <2>1, <3>1, <3>3
    <3> QED BY <1>2, <3>1, <3>2, <3>3
  <2> QED BY <1>2, <2>1, <2>2
<1> QED BY <1>2, <1>4, <1>5

\* what Advance finds, in the list as a visit leaves it
LEMMA AdvanceKeepsCursor ==
    ASSUME TypeOK, CursorOrdered, pc \in Active,
           NEW m \in Memory, NEW S \in {used, used \ {cur}}, InOrder(m, S),
           Advance(m)
    PROVE  /\ pc' \in {"sleep", "switch"}
           /\ cur' = nxt /\ cur' \in Node \ {cur} /\ nxt' \in Node
           /\ pc' = "switch" <=> nxt # ListHead
           /\ pc' = "switch" => /\ cur' \in S \ {cur}
                                /\ born[cur] < born[cur']
                                /\ nxt' = m.next[cur']
                                /\ nxt' \in S \cup {ListHead}
                                /\ AddedBefore(cur', nxt')
<1>1. nxt \in Ring \ {cur} /\ AddedBefore(cur, nxt) /\ cur \in used
  BY DEF CursorOrdered, Ring, AddedBefore, TypeOK
<1>2. S \in SUBSET Slot BY DEF TypeOK
<1>3. nxt # ListHead => nxt \in S BY <1>1 DEF Ring
<1>4. nxt # ListHead => m.next[nxt] \in S \cup {ListHead} /\ AddedBefore(nxt, m.next[nxt])
  BY <1>2, <1>3, Succession
<1>5. nxt = ListHead => m.next[nxt] \in S \cup {ListHead}
  BY <1>2, FirstEntry
<1> QED BY <1>1, <1>2, <1>3, <1>4, <1>5 DEF Advance, Ring, TypeOK, AddedBefore

-----------------------------------------------------------------------------
LEMMA InitIInv == Init => IInv
<1> SUFFICES ASSUME Init PROVE IInv OBVIOUS
<1> USE DEF Init
<1>1. TypeOK BY DEF TypeOK, Memory, Task, Zeroed, ServicePoints
<1>2. TaskList(mem, used, <<>>)
  <2>1. IsList(mem, ListHead, <<>>) BY DEF IsList, Distinct, Neighbour
  <2> QED BY <2>1 DEF TaskList
<1>3. CursorOrdered BY DEF CursorOrdered, Active
<1> QED BY <1>1, <1>2, <1>3 DEF IInv, InOrder

\* steps that leave the list alone keep its order
LEMMA OrderUnchanged ==
    ASSUME IInv, UNCHANGED <<mem, used, born>>, calls' \in Nat, calls' >= calls
    PROVE  InOrder(mem, used)' /\ \A n \in used' : born'[n] <= calls'
BY DEF IInv, InOrder, TaskList, TypeOK

\* steps that leave the cursor alone, too
LEMMA CursorUnchanged ==
    ASSUME IInv, UNCHANGED <<used, born, cur, nxt>>,
           pc' \in Active => pc \in Active
    PROVE  CursorOrdered'
BY DEF IInv, CursorOrdered, Ring, AddedBefore

-----------------------------------------------------------------------------
(* One lemma per operation: it preserves IInv.                             *)

LEMMA AddStep ==
    ASSUME IInv, NEW h \in Handler \cup {NoHandler}, NEW p \in Period,
           NEW once \in BOOLEAN, NEW type \in {"NORMAL", "THREAD"},
           timer_task_add(h, p, once, type)
    PROVE  IInv'
<1> USE DEF IInv
<1>1. PICK n \in Slot \ used :
          /\ used' = used \cup {n}
          /\ tk' = [tk EXCEPT ![n] = [handler |-> h, periodic |-> p,
                                      is_once |-> once, task_type |-> type,
                                      cnt |-> 0, state |-> "WORK"]]
          /\ mem' = list_add_tail(mem, n, ListHead)
          /\ born' = [born EXCEPT ![n] = calls']
  BY DEF timer_task_add
<1>2. /\ calls' = calls + 1 /\ calls < MaxCalls
      /\ UNCHANGED <<pc, cur, nxt, spawned>>
  BY DEF timer_task_add, CallAPI, service
<1>3. PICK s : TaskList(mem, used, s) BY DEF InOrder
<1>4. /\ IsList(mem, ListHead, s) /\ used = {s[i] : i \in 1 .. Len(s)}
      /\ \A i, j \in 1 .. Len(s) : i < j => born[s[i]] < born[s[j]]
  BY <1>3 DEF TaskList
<1>5. mem \in Memory /\ n \in Node \ {ListHead} /\ \A i \in 1 .. Len(s) : s[i] # n
  BY <1>1, <1>4 DEF TypeOK
<1>6. mem' \in Memory /\ IsList(mem', ListHead, Append(s, n))
  BY <1>1, <1>4, <1>5, AddLast
<1>7. /\ born' \in [Slot -> Nat] /\ born'[n] = calls + 1
      /\ \A k \in used : born'[k] = born[k] /\ born[k] <= calls /\ k # n
      /\ calls \in Nat
  BY <1>1, <1>2 DEF TypeOK
<1>8. TypeOK'
  <2>1. tk' \in [Slot -> Task]
    <3>1. [handler |-> h, periodic |-> p, is_once |-> once, task_type |-> type,
           cnt |-> 0, state |-> "WORK"] \in Task
      BY DEF Task
    <3> QED BY <1>1, <3>1 DEF TypeOK
  <2>2. calls' \in 0 .. MaxCalls /\ used' \subseteq Slot
    BY <1>1, <1>2 DEF TypeOK
  <2>3. \A k \in used' : tk'[k].handler # NoHandler
    <3>1. h # NoHandler /\ tk'[n].handler = h /\ \A k \in used : tk'[k] = tk[k]
      BY <1>1 DEF timer_task_add, TypeOK
    <3> QED BY <1>1, <3>1 DEF TypeOK
  <2> QED BY <1>2, <1>6, <1>7, <2>1, <2>2, <2>3 DEF TypeOK
<1>9. InOrder(mem, used)'
  <2> DEFINE t == Append(s, n)
  <2>1. /\ Len(s) \in Nat /\ Len(t) = Len(s) + 1
        /\ \A i \in 1 .. Len(s) : t[i] = s[i] /\ s[i] \in used
        /\ t[Len(s) + 1] = n
    BY <1>4 DEF IsList
  <2> HIDE DEF t
  <2>2. used' = {t[i] : i \in 1 .. Len(t)}
    <3>1. \A i \in 1 .. Len(t) : t[i] \in used' BY <1>1, <2>1
    <3>2. \A k \in used : \E i \in 1 .. Len(t) : t[i] = k BY <1>4, <2>1
    <3>3. \E i \in 1 .. Len(t) : t[i] = n BY <2>1
    <3> QED BY <1>1, <3>1, <3>2, <3>3
  <2>3. ASSUME NEW i \in 1 .. Len(t), NEW j \in 1 .. Len(t), i < j
        PROVE  born'[t[i]] < born'[t[j]]
    <3>1. i \in 1 .. Len(s) BY <2>1, <2>3
    <3>2. CASE j = Len(s) + 1
      <4>1. t[i] \in used /\ t[j] = n BY <2>1, <3>1, <3>2
      <4>2. born[t[i]] \in Nat BY <4>1 DEF TypeOK
      <4> QED BY <1>7, <4>1, <4>2
    <3>3. CASE j \in 1 .. Len(s) BY <1>4, <1>7, <2>1, <2>3, <3>1, <3>3
    <3> QED BY <2>1, <3>2, <3>3
  <2>4. IsList(mem', ListHead, t) BY <1>6 DEF t
  <2> QED BY <2>2, <2>3, <2>4 DEF InOrder, TaskList
<1>10. \A k \in used' : born'[k] <= calls'
  <2>1. \A k \in used : born[k] \in Nat BY DEF TypeOK
  <2> QED BY <1>1, <1>2, <1>7, <2>1
<1>11. CursorOrdered'
  BY <1>1, <1>2, <1>7 DEF CursorOrdered, AddedBefore, Ring
<1> QED BY <1>8, <1>9, <1>10, <1>11

\* pause, cancel and modify write one word of the tasks they find
LEMMA CallerStep ==
    ASSUME IInv,
           \/ AddWithoutMemory
           \/ timer_task_init
           \/ \E h \in Handler : timer_task_pause(h) \/ timer_task_cancel(h)
           \/ \E h \in Handler, p \in Period : timer_task_modify_periodic(h, p)
           \/ \E h \in Handler : ThreadEnds(h)
    PROVE  IInv'
<1> USE DEF IInv
<1>1. /\ UNCHANGED <<mem, used, born, cur, nxt>>
      /\ calls' \in Nat /\ calls' >= calls
      /\ pc' \in Active => pc \in Active
  BY DEF AddWithoutMemory, timer_task_init, timer_task_pause, timer_task_cancel,
         timer_task_modify_periodic, ThreadEnds, CallAPI, service, TypeOK, Active
<1>2. TypeOK'
  <2>1. CASE AddWithoutMemory
    BY <2>1 DEF AddWithoutMemory, CallAPI, TypeOK, ServicePoints
  <2>2. CASE timer_task_init
    BY <2>2 DEF timer_task_init, TypeOK, ServicePoints
  <2>3. ASSUME NEW h \in Handler, timer_task_pause(h) \/ timer_task_cancel(h)
        PROVE  TypeOK'
    <3> HIDE DEF Found
    <3>1. tk' \in [Slot -> Task]
      BY <2>3 DEF timer_task_pause, timer_task_cancel, TypeOK, Task
    <3>2. \A n \in Slot : tk'[n].handler = tk[n].handler
      BY <2>3 DEF timer_task_pause, timer_task_cancel, TypeOK, Task
    <3> QED BY <2>3, <3>1, <3>2 DEF timer_task_pause, timer_task_cancel, CallAPI, service,
                              TypeOK
  <2>4. ASSUME NEW h \in Handler, NEW p \in Period, timer_task_modify_periodic(h, p)
        PROVE  TypeOK'
    <3>1. tk' \in [Slot -> Task]
      BY <2>4 DEF timer_task_modify_periodic, TypeOK, Task
    <3>2. \A n \in Slot : tk'[n].handler = tk[n].handler
      BY <2>4 DEF timer_task_modify_periodic, TypeOK, Task
    <3> QED BY <2>4, <3>1, <3>2 DEF timer_task_modify_periodic, CallAPI, service, TypeOK
  <2>5. ASSUME NEW h \in Handler, ThreadEnds(h) PROVE TypeOK'
    BY <2>5 DEF ThreadEnds, service, TypeOK
  <2> QED BY <2>1, <2>2, <2>3, <2>4, <2>5
<1> QED BY <1>1, <1>2, OrderUnchanged, CursorUnchanged

\* BeginPass puts the cursor on the first entry
LEMMA BeginPassStep == ASSUME IInv, BeginPass PROVE IInv'
<1> USE DEF IInv
<1>1. UNCHANGED <<mem, used, tk, spawned, calls, born>>
  BY DEF BeginPass
<1>2. used \in SUBSET Slot /\ calls' \in Nat /\ calls' >= calls
  BY <1>1 DEF TypeOK
<1>3. mem.next[ListHead] \in used
  BY <1>2, FirstEntry DEF BeginPass, list_empty
<1>4. /\ mem.next[mem.next[ListHead]] \in Ring
      /\ AddedBefore(mem.next[ListHead], mem.next[mem.next[ListHead]])
  BY <1>2, <1>3, Succession DEF Ring
<1>5. TypeOK'
  BY <1>1, <1>3, <1>4 DEF BeginPass, TypeOK, Ring, ServicePoints
<1>6. InOrder(mem, used)' /\ \A n \in used' : born'[n] <= calls'
  BY <1>1, <1>2, OrderUnchanged
<1>7. CursorOrdered'
  BY <1>1, <1>3, <1>4 DEF BeginPass, CursorOrdered, AddedBefore, Ring
<1> QED BY <1>5, <1>6, <1>7

\* a visit that only moves the cursor
LEMMA MoveOnStep ==
    ASSUME IInv, pc \in Active, Advance(mem),
           UNCHANGED <<mem, used, spawned, calls, born>>, tk' \in [Slot -> Task],
           \A n \in Slot : tk'[n].handler = tk[n].handler
    PROVE  IInv'
<1> USE DEF IInv
<1>1. used \in {used, used \ {cur}} /\ mem \in Memory /\ calls' \in Nat /\ calls' >= calls
  BY DEF TypeOK
<1>2. /\ pc' \in {"sleep", "switch"} /\ cur' \in Node /\ nxt' \in Node
      /\ pc' = "switch" => cur' \in used /\ nxt' \in Ring /\ AddedBefore(cur', nxt')
  BY <1>1, AdvanceKeepsCursor DEF Ring
<1>3. TypeOK'
  BY <1>2 DEF TypeOK, ServicePoints
<1>4. InOrder(mem, used)' /\ \A n \in used' : born'[n] <= calls'
  BY <1>1, OrderUnchanged
<1>5. CursorOrdered'
  BY <1>2 DEF CursorOrdered, AddedBefore, Ring, Active
<1> QED BY <1>3, <1>4, <1>5

LEMMA SwitchStep == ASSUME IInv, Switch PROVE IInv'
<1>1. CASE Advance(mem)
  BY <1>1, MoveOnStep DEF Switch, Active, IInv, TypeOK
<1>2. CASE /\ pc' = IF tk[cur].state = "WORK" THEN "work" ELSE "dying"
           /\ UNCHANGED <<cur, nxt>>
  <2>1. UNCHANGED <<mem, used, tk, spawned, calls, born>> /\ pc = "switch"
    BY DEF Switch
  <2>2. TypeOK'
    BY <1>2, <2>1 DEF IInv, TypeOK, ServicePoints
  <2>3. InOrder(mem, used)' /\ \A n \in used' : born'[n] <= calls'
    BY <2>1, OrderUnchanged DEF IInv, TypeOK
  <2>4. CursorOrdered'
    BY <1>2, <2>1, CursorUnchanged DEF Active
  <2> QED BY <2>2, <2>3, <2>4 DEF IInv
<1> QED BY <1>1, <1>2 DEF Switch

\* the fields of the task under the cursor keep their types
LEMMA VisitStep == ASSUME IInv, NotDue \/ Finish PROVE IInv'
<1>1. cur \in Slot /\ pc \in Active
  BY DEF IInv, CursorOrdered, NotDue, Finish, TypeOK, Active
<1>2. tk' \in [Slot -> Task]
  BY <1>1 DEF IInv, TypeOK, NotDue, Finish, Task
<1>3. \A n \in Slot : tk'[n].handler = tk[n].handler
  BY <1>1 DEF IInv, TypeOK, NotDue, Finish, Task
<1> QED BY <1>1, <1>2, <1>3, MoveOnStep DEF NotDue, Finish

LEMMA InVisitStep ==
    ASSUME IInv,
           Due \/ DivideByZero \/ CallInline \/ CallThread \/ HandlerReturns
    PROVE  IInv'
<1>1. UNCHANGED <<mem, used, cur, nxt, calls, born>> /\ pc \in Active
  BY DEF Due, DivideByZero, CallInline, CallThread, HandlerReturns, Active
<1>2. pc' \in ServicePoints
  BY DEF Due, DivideByZero, CallInline, CallThread, HandlerReturns, ServicePoints
<1>3. cur \in Slot
  BY <1>1 DEF IInv, CursorOrdered, TypeOK
<1>4. tk' \in [Slot -> Task]
  BY <1>3 DEF IInv, TypeOK, Task, Due, DivideByZero, CallInline, CallThread,
              HandlerReturns
<1>5. \A n \in Slot : tk'[n].handler = tk[n].handler
  BY <1>3 DEF IInv, TypeOK, Task, Due, DivideByZero, CallInline, CallThread,
              HandlerReturns
<1>6. spawned' \in [Handler -> 0 .. MaxThreads]
  BY DEF IInv, TypeOK, Due, DivideByZero, CallInline, CallThread, HandlerReturns
<1>7. TypeOK'
  BY <1>1, <1>2, <1>4, <1>5, <1>6 DEF IInv, TypeOK
<1>8. InOrder(mem, used)' /\ \A n \in used' : born'[n] <= calls'
  BY <1>1, OrderUnchanged DEF IInv, TypeOK
<1>9. CursorOrdered'
  BY <1>1, CursorUnchanged
<1> QED BY <1>7, <1>8, <1>9 DEF IInv

\* the entry leaves the list, its neighbours stay in order
LEMMA ReclaimStep == ASSUME IInv, Reclaim PROVE IInv'
<1> USE DEF IInv
<1>1. /\ pc \in Active /\ mem' = list_del(mem, cur) /\ used' = used \ {cur}
      /\ Advance(mem') /\ UNCHANGED <<tk, spawned, calls, born>>
  BY DEF Reclaim, Active
<1>2. cur \in used /\ cur # ListHead
  BY <1>1 DEF CursorOrdered, TypeOK
<1>3. PICK s : TaskList(mem, used, s) BY DEF InOrder
<1>4. /\ IsList(mem, ListHead, s) /\ used = {s[i] : i \in 1 .. Len(s)}
      /\ \A i, j \in 1 .. Len(s) : i < j => born[s[i]] < born[s[j]]
  BY <1>3 DEF TaskList
<1>5. PICK k \in 1 .. Len(s) : cur = s[k] BY <1>2, <1>4
<1>6. mem' \in Memory /\ IsList(mem', ListHead, Removed(s, k))
  <2>1. mem.prev[cur] \in Node /\ mem.next[cur] \in Node /\ cur \in Node /\ mem \in Memory
    BY <1>4, <1>5, Around DEF TypeOK
  <2> QED BY <1>1, <1>4, <1>5, <2>1, DelType, DelList
<1>7. InOrder(mem', used \ {cur})
  <2> DEFINE t == Removed(s, k)
  <2>1. /\ Len(s) \in Nat /\ Len(t) = Len(s) - 1 /\ k \in Nat
        /\ \A i \in 1 .. Len(t) : t[i] = s[IF i < k THEN i ELSE i + 1]
    BY <1>4 DEF IsList, Removed
  <2>2. IsList(mem', ListHead, t) BY <1>6
  <2> HIDE DEF t
  <2>3. \A i \in 1 .. Len(s) : i # k => s[i] # cur
    BY <1>4, <1>5 DEF IsList, Distinct
  <2>4. \A i \in 1 .. Len(t) : t[i] \in used \ {cur}
    <3> TAKE i \in 1 .. Len(t)
    <3>1. (IF i < k THEN i ELSE i + 1) \in (1 .. Len(s)) \ {k} BY <2>1
    <3> QED BY <1>4, <2>1, <2>3, <3>1
  <2>5. \A n \in used \ {cur} : \E i \in 1 .. Len(t) : t[i] = n
    <3> TAKE n \in used \ {cur}
    <3>1. PICK i \in 1 .. Len(s) : n = s[i] /\ i # k BY <1>4, <1>5
    <3>2. CASE i < k
      <4>1. i \in 1 .. Len(t) /\ t[i] = s[i] BY <2>1, <3>2
      <4> QED BY <3>1, <4>1
    <3>3. CASE i > k
      <4>1. i - 1 \in 1 .. Len(t) /\ t[i-1] = s[i-1+1] /\ i - 1 + 1 = i BY <2>1, <3>3
      <4> QED BY <3>1, <4>1
    <3> QED BY <2>1, <3>1, <3>2, <3>3
  <2>6. used \ {cur} = {t[i] : i \in 1 .. Len(t)} BY <2>4, <2>5
  <2>7. \A i, j \in 1 .. Len(t) : i < j => born[t[i]] < born[t[j]]
    <3> TAKE i, j \in 1 .. Len(t)
    <3> HAVE i < j
    <3> DEFINE a == IF i < k THEN i ELSE i + 1
               b == IF j < k THEN j ELSE j + 1
    <3>1. a \in 1 .. Len(s) /\ b \in 1 .. Len(s) /\ a < b BY <2>1
    <3>2. t[i] = s[a] /\ t[j] = s[b] BY <2>1
    <3> HIDE DEF a, b
    <3> QED BY <1>4, <3>1, <3>2
  <2> QED BY <2>2, <2>6, <2>7 DEF InOrder, TaskList
<1>8. /\ pc' \in {"sleep", "switch"} /\ cur' \in Node /\ nxt' \in Node
      /\ pc' = "switch" => /\ cur' \in used \ {cur} /\ nxt' \in (used \ {cur}) \cup {ListHead}
                           /\ AddedBefore(cur', nxt')
  <2>1. used \ {cur} \in {used, used \ {cur}} OBVIOUS
  <2> QED BY <1>1, <1>6, <1>7, <2>1, AdvanceKeepsCursor
<1>9. TypeOK'
  BY <1>1, <1>6, <1>8 DEF TypeOK, ServicePoints
<1>10. InOrder(mem, used)' /\ \A n \in used' : born'[n] <= calls'
  BY <1>1, <1>7 DEF InOrder, TaskList
<1>11. CursorOrdered'
  BY <1>1, <1>8 DEF CursorOrdered, AddedBefore, Active, Ring
<1> QED BY <1>9, <1>10, <1>11

LEMMA StutterStep == ASSUME IInv, UNCHANGED vars PROVE IInv'
<1>1. UNCHANGED <<mem, used, tk, pc, cur, nxt, spawned, calls, born>>
  BY DEF vars
<1>2. TypeOK'
  BY <1>1 DEF IInv, TypeOK
<1>3. InOrder(mem, used)' /\ \A n \in used' : born'[n] <= calls'
  BY <1>1, OrderUnchanged DEF IInv, TypeOK
<1>4. CursorOrdered'
  BY <1>1, CursorUnchanged
<1> QED BY <1>2, <1>3, <1>4 DEF IInv

LEMMA NextIInv == IInv /\ [Next]_vars => IInv'
<1> SUFFICES ASSUME IInv, [Next]_vars PROVE IInv' OBVIOUS
<1>1. CASE Caller
  BY <1>1, AddStep, CallerStep DEF Caller
<1>2. CASE Service
  BY <1>2, BeginPassStep, SwitchStep, VisitStep, InVisitStep, ReclaimStep DEF Service
<1>3. CASE \E h \in Handler : ThreadEnds(h)
  BY <1>3, CallerStep
<1>4. CASE UNCHANGED vars
  BY <1>4, StutterStep
<1> QED BY <1>1, <1>2, <1>3, <1>4 DEF Next

(***************************************************************************)
(* The task list is always in the order of the calls that added its tasks, *)
(* it holds the allocated tasks and no other, and the service's cursor and *)
(* the next it has read are on it, the one before the other.               *)
(***************************************************************************)
THEOREM Inductive == Spec => []IInv
BY InitIInv, NextIInv, PTL DEF Spec

(***************************************************************************)
(* Every variable of the timer service keeps its type, whatever the        *)
(* callers and the handlers do.                                            *)
(***************************************************************************)
THEOREM TypeCorrect == Spec => []TypeOK
<1>1. IInv => TypeOK
  BY DEF IInv
<1> QED BY <1>1, Inductive, PTL

(***************************************************************************)
(* The service thread never uses a freed block: list_for_each_entry_safe   *)
(* is enough here, because only the service frees blocks, only the one     *)
(* under its cursor, and callers append at the tail.                       *)
(***************************************************************************)
THEOREM CursorIsSafe == Spec => []CursorSafe
<1>1. IInv => CursorSafe
  <2> SUFFICES ASSUME IInv, pc \in Active
               PROVE  cur \in used /\ nxt \in (used \ {cur}) \cup {ListHead}
    BY DEF CursorSafe, Active
  <2>1. cur \in used /\ nxt \in Ring /\ AddedBefore(cur, nxt)
    BY DEF IInv, CursorOrdered
  <2>2. nxt # cur
    BY <2>1 DEF AddedBefore, IInv, TypeOK
  <2> QED BY <2>1, <2>2 DEF Ring
<1> QED BY <1>1, Inductive, PTL

-----------------------------------------------------------------------------
(***************************************************************************)
(* TimerTask implements TimerContract: each operation is an operation of   *)
(* the contract or changes nothing that the contract knows of.             *)
(***************************************************************************)
Life == [n \in Slot |-> LifeOf(n)]

\* the stage tells the turns apart
LEMMA TurnStage ==
    ASSUME pc \in ServicePoints
    PROVE  /\ TurnOf = Contract!Crashed <=> pc = "crash"
           /\ TurnOf = Contract!None <=> pc \in {"off", "sleep", "switch"}
BY DEF TurnOf, Contract!Crashed, Contract!None, ServicePoints

\* pause, cancel and modify find at most one entry
LEMMA FoundOne ==
    ASSUME NEW h, NEW a \in Found(h), NEW b \in Found(h)
    PROVE  a = b
<1> DEFINE walk == list_for_each(mem, ListHead)
<1>1. PICK i \in DOMAIN walk : walk[i] = a /\ tk[a].handler = h
                               /\ \A j \in 1 .. i-1 : tk[walk[j]].handler # h
  BY DEF Found
<1>2. PICK j \in DOMAIN walk : walk[j] = b /\ tk[b].handler = h
                               /\ \A k \in 1 .. j-1 : tk[walk[k]].handler # h
  BY DEF Found
<1>3. i \in Int /\ j \in Int /\ i >= 1 /\ j >= 1
  BY DEF list_for_each, Walk
<1> HIDE DEF walk
<1> QED BY <1>1, <1>2, <1>3

LEMMA InitContract == Init => Contract!Init
BY DEF Init, Contract!Init, Contract!None, LifeOf, TurnOf

\* a step that leaves the mapped variables alone
LEMMA SameContract ==
    ASSUME Life' = Life, TurnOf' = TurnOf
    PROVE  UNCHANGED Contract!vars
BY DEF Contract!vars, Life

\* blocks keep their place in the contract when used and their state are kept
LEMMA SameLife ==
    ASSUME used' = used, \A n \in Slot : tk'[n].state = tk[n].state
    PROVE  Life' = Life
BY DEF Life, LifeOf

LEMMA SameTurn ==
    ASSUME UNCHANGED <<pc, cur>>
    PROVE  TurnOf' = TurnOf
BY DEF TurnOf

-----------------------------------------------------------------------------
(* The callers.                                                            *)

LEMMA AddRefines ==
    ASSUME IInv, NEW h \in Handler \cup {NoHandler}, NEW p \in Period,
           NEW once \in BOOLEAN, NEW type \in {"NORMAL", "THREAD"},
           timer_task_add(h, p, once, type)
    PROVE  \E s \in Slot : Contract!Arm(s)
<1>1. PICK n \in Slot \ used :
          /\ used' = used \cup {n}
          /\ tk' = [tk EXCEPT ![n] = [handler |-> h, periodic |-> p,
                                      is_once |-> once, task_type |-> type,
                                      cnt |-> 0, state |-> "WORK"]]
  BY DEF timer_task_add
<1>2. tk'[n].state = "WORK" /\ \A k \in Slot \ {n} : tk'[k] = tk[k]
  BY <1>1 DEF IInv, TypeOK
<1>3. Life' = [Life EXCEPT ![n] = "armed"] /\ Life[n] = "free"
  BY <1>1, <1>2 DEF Life, LifeOf
<1>4. TurnOf # Contract!Crashed
  BY TurnStage DEF timer_task_add, CallAPI, IInv, TypeOK
<1>5. TurnOf' = TurnOf
  BY SameTurn DEF timer_task_add, service
<1> QED BY <1>1, <1>3, <1>4, <1>5 DEF Contract!Arm, Life

\* writing the state of the tasks found moves at most one allocated block
LEMMA StateRefines ==
    ASSUME IInv, NEW h, NEW st \in {"PAUSE", "DIE"},
           tk' = [n \in Slot |-> IF n \in Found(h)
                                  THEN [tk[n] EXCEPT !.state = st] ELSE tk[n]],
           UNCHANGED <<used, pc, cur>>, pc # "crash"
    PROVE  \/ \E s \in Slot : IF st = "PAUSE" THEN Contract!Hold(s) ELSE Contract!End(s)
           \/ UNCHANGED Contract!vars
<1>1. \A n \in Slot : tk'[n].state = IF n \in Found(h) THEN st ELSE tk[n].state
  BY DEF IInv, TypeOK, Task
<1>2. TurnOf' = TurnOf /\ TurnOf # Contract!Crashed
  BY SameTurn, TurnStage DEF IInv, TypeOK
<1>3. CASE Found(h) \cap used = {}
  <2>1. Life' = Life
    BY <1>1, <1>3 DEF Life, LifeOf
  <2> QED BY <1>2, <2>1, SameContract
<1>4. CASE Found(h) \cap used # {}
  <2>1. PICK n \in Found(h) \cap used : TRUE
    BY <1>4
  <2>2. n \in Slot /\ \A k \in Slot : k \in Found(h) <=> k = n
    BY <2>1, FoundOne DEF IInv, TypeOK
  <2>3. Life[n] # "free"
    BY <2>1, <2>2 DEF Life, LifeOf, IInv, TypeOK, Task
  <2>4. Life' = [Life EXCEPT ![n] = IF st = "PAUSE" THEN "held" ELSE "ending"]
    <3>1. Life'[n] = IF st = "PAUSE" THEN "held" ELSE "ending"
      BY <1>1, <2>1, <2>2 DEF Life, LifeOf
    <3>2. \A k \in Slot \ {n} : Life'[k] = Life[k]
      BY <1>1, <2>2 DEF Life, LifeOf
    <3> QED BY <2>2, <3>1, <3>2 DEF Life
  <2>5. CASE st = "PAUSE"
    BY <1>2, <2>2, <2>3, <2>4, <2>5 DEF Contract!Hold, Life
  <2>6. CASE st = "DIE"
    BY <1>2, <2>2, <2>3, <2>4, <2>6 DEF Contract!End, Life
  <2> QED BY <2>5, <2>6
<1> QED BY <1>3, <1>4

LEMMA CallerRefines ==
    ASSUME IInv, Caller
    PROVE  Contract!Next \/ UNCHANGED Contract!vars
<1>1. ASSUME NEW h \in Handler \cup {NoHandler}, NEW p \in Period,
             NEW once \in BOOLEAN, NEW type \in {"NORMAL", "THREAD"},
             timer_task_add(h, p, once, type)
      PROVE  Contract!Next
  BY <1>1, AddRefines DEF Contract!Next
<1>2. CASE AddWithoutMemory
  <2>1. Life' = Life
    BY <1>2, SameLife DEF AddWithoutMemory
  <2>2. TurnOf' = Contract!Crashed
    BY <1>2 DEF AddWithoutMemory, TurnOf, Contract!Crashed
  <2> QED BY <2>1, <2>2 DEF Contract!Next, Contract!Crash, Life
<1>3. ASSUME NEW h \in Handler, timer_task_pause(h)
      PROVE  Contract!Next \/ UNCHANGED Contract!vars
  BY <1>3, StateRefines DEF timer_task_pause, CallAPI, service, Contract!Next
<1>4. ASSUME NEW h \in Handler, timer_task_cancel(h)
      PROVE  Contract!Next \/ UNCHANGED Contract!vars
  BY <1>4, StateRefines DEF timer_task_cancel, CallAPI, service, Contract!Next
<1>5. ASSUME NEW h \in Handler, NEW p \in Period, timer_task_modify_periodic(h, p)
      PROVE  UNCHANGED Contract!vars
  <2>1. \A n \in Slot : tk'[n].state = tk[n].state
    BY <1>5 DEF timer_task_modify_periodic, IInv, TypeOK, Task
  <2>2. used' = used /\ UNCHANGED <<pc, cur>>
    BY <1>5 DEF timer_task_modify_periodic, service
  <2> QED BY <2>1, <2>2, SameLife, SameTurn, SameContract
<1>6. CASE timer_task_init
  <2>1. Life' = Life
    BY <1>6, SameLife DEF timer_task_init
  <2>2. TurnOf' = TurnOf
    BY <1>6 DEF timer_task_init, TurnOf
  <2> QED BY <2>1, <2>2, SameContract
<1> QED BY <1>1, <1>2, <1>3, <1>4, <1>5, <1>6 DEF Caller

-----------------------------------------------------------------------------
(* The service.                                                            *)

\* a step of the service within or at the edge of a visit, by what it maps to
LEMMA AdvanceTurn ==
    ASSUME NEW m, Advance(m)
    PROVE  TurnOf' = Contract!None
BY DEF Advance, TurnOf, Contract!None

LEMMA SwitchRefines ==
    ASSUME IInv, Switch
    PROVE  Contract!Next \/ UNCHANGED Contract!vars
<1>1. Life' = Life
  BY SameLife DEF Switch
<1>2. cur \in Slot /\ cur \in used /\ TurnOf = Contract!None /\ tk[cur] \in Task
  BY TurnStage DEF Switch, IInv, CursorOrdered, Active, TypeOK
<1>3. CASE Advance(mem)
  BY <1>1, <1>2, <1>3, AdvanceTurn, SameContract
<1>4. CASE tk[cur].state = "WORK" /\ pc' = "work" /\ cur' = cur
  <2>1. Life[cur] = "armed" /\ TurnOf' = Contract!At(cur, "chosen")
    BY <1>2, <1>4 DEF Life, LifeOf, TurnOf, Contract!At
  <2> QED BY <1>1, <1>2, <2>1 DEF Contract!Next, Contract!Serve, Contract!Choose, Life
<1>5. CASE tk[cur].state = "DIE" /\ pc' = "dying" /\ cur' = cur
  <2>1. Life[cur] = "ending" /\ TurnOf' = Contract!At(cur, "doomed")
    BY <1>2, <1>5 DEF Life, LifeOf, TurnOf, Contract!At
  <2> QED BY <1>1, <1>2, <2>1 DEF Contract!Next, Contract!Serve, Contract!Doom, Life
<1> QED BY <1>2, <1>3, <1>4, <1>5 DEF Switch, Task

LEMMA FinishRefines ==
    ASSUME IInv, Finish
    PROVE  Contract!Next
<1>1. cur \in Slot /\ cur \in used /\ tk[cur] \in Task
  BY DEF Finish, IInv, CursorOrdered, Active, TypeOK
<1>2. TurnOf = Contract!At(cur, "called") /\ TurnOf' = Contract!None
  BY AdvanceTurn DEF Finish, TurnOf, Contract!At
<1>3. /\ tk'[cur].state = IF tk[cur].is_once THEN "DIE" ELSE tk[cur].state
      /\ \A n \in Slot \ {cur} : tk'[n] = tk[n]
      /\ used' = used
  BY <1>1 DEF Finish, IInv, TypeOK, Task
<1>4. Life' \in {Life, [Life EXCEPT ![cur] = "ending"]}
  <2>1. CASE tk[cur].is_once
    BY <1>1, <1>3, <2>1 DEF Life, LifeOf
  <2>2. CASE ~tk[cur].is_once
    BY <1>1, <1>3, <2>2 DEF Life, LifeOf
  <2> QED BY <2>1, <2>2
<1> QED BY <1>1, <1>2, <1>4 DEF Contract!Next, Contract!Complete, Life

LEMMA ReclaimRefines ==
    ASSUME IInv, Reclaim
    PROVE  Contract!Next
<1>1. cur \in Slot
  BY DEF Reclaim, IInv, CursorOrdered, Active, TypeOK
<1>2. TurnOf = Contract!At(cur, "doomed") /\ TurnOf' = Contract!None
  BY AdvanceTurn DEF Reclaim, TurnOf, Contract!At
<1>3. Life' = [Life EXCEPT ![cur] = "free"]
  BY <1>1 DEF Reclaim, Life, LifeOf
<1> QED BY <1>1, <1>2, <1>3 DEF Contract!Next, Contract!Free, Life

LEMMA ServiceRefines ==
    ASSUME IInv, Service
    PROVE  Contract!Next \/ UNCHANGED Contract!vars
<1>1. CASE BeginPass
  <2>1. Life' = Life
    BY <1>1, SameLife DEF BeginPass
  <2>2. TurnOf' = TurnOf
    BY <1>1 DEF BeginPass, TurnOf
  <2> QED BY <2>1, <2>2, SameContract
<1>2. CASE NotDue
  <2>1. cur \in Slot
    BY <1>2 DEF NotDue, IInv, CursorOrdered, Active, TypeOK
  <2>2. \A n \in Slot : tk'[n].state = tk[n].state
    BY <1>2, <2>1 DEF NotDue, IInv, TypeOK, Task
  <2>3. Life' = Life
    BY <1>2, <2>2, SameLife DEF NotDue
  <2>4. TurnOf = Contract!At(cur, "chosen") /\ TurnOf' = Contract!None
    BY <1>2, AdvanceTurn DEF NotDue, TurnOf, Contract!At
  <2> QED BY <2>1, <2>3, <2>4 DEF Contract!Next, Contract!Serve, Contract!Decline, Life
<1>3. CASE Due
  <2>1. cur \in Slot
    BY <1>3 DEF Due, IInv, CursorOrdered, Active, TypeOK
  <2>2. \A n \in Slot : tk'[n].state = tk[n].state
    BY <1>3, <2>1 DEF Due, IInv, TypeOK, Task
  <2>3. Life' = Life
    BY <1>3, <2>2, SameLife DEF Due
  <2>4. TurnOf = Contract!At(cur, "chosen") /\ TurnOf' = Contract!At(cur, "due")
    BY <1>3 DEF Due, TurnOf, Contract!At
  <2> QED BY <2>1, <2>3, <2>4 DEF Contract!Next, Contract!Serve, Contract!FallDue, Life
<1>4. CASE DivideByZero
  <2>1. Life' = Life
    BY <1>4, SameLife DEF DivideByZero
  <2>2. TurnOf' = Contract!Crashed
    BY <1>4 DEF DivideByZero, TurnOf, Contract!Crashed
  <2> QED BY <2>1, <2>2 DEF Contract!Next, Contract!Crash, Life
<1>5. CASE CallInline \/ CallThread
  <2>1. cur \in Slot
    BY <1>5 DEF CallInline, CallThread, IInv, CursorOrdered, Active, TypeOK
  <2>2. Life' = Life
    BY <1>5, SameLife DEF CallInline, CallThread
  <2>3. TurnOf = Contract!At(cur, "due") /\ TurnOf' = Contract!At(cur, "called")
    BY <1>5 DEF CallInline, CallThread, TurnOf, Contract!At
  <2> QED BY <2>1, <2>2, <2>3 DEF Contract!Next, Contract!Serve, Contract!Call, Life
<1>6. CASE HandlerReturns
  <2>1. Life' = Life
    BY <1>6, SameLife DEF HandlerReturns
  <2>2. TurnOf' = TurnOf
    BY <1>6 DEF HandlerReturns, TurnOf
  <2> QED BY <2>1, <2>2, SameContract
<1> QED BY <1>1, <1>2, <1>3, <1>4, <1>5, <1>6, SwitchRefines, FinishRefines,
           ReclaimRefines DEF Service

LEMMA NextContract == IInv /\ [Next]_vars => [Contract!Next]_(Contract!vars)
<1> SUFFICES ASSUME IInv, [Next]_vars
             PROVE  Contract!Next \/ UNCHANGED Contract!vars
  OBVIOUS
<1>1. CASE Caller
  BY <1>1, CallerRefines
<1>2. CASE Service
  BY <1>2, ServiceRefines
<1>3. ASSUME NEW h \in Handler, ThreadEnds(h)
      PROVE  UNCHANGED Contract!vars
  BY <1>3, SameLife, SameTurn, SameContract DEF ThreadEnds, service
<1>4. CASE UNCHANGED vars
  BY <1>4, SameLife, SameTurn, SameContract DEF vars
<1> QED BY <1>1, <1>2, <1>3, <1>4 DEF Next

(***************************************************************************)
(* Whatever is called and whenever, the service calls a handler only of a  *)
(* task it found working, frees only a block it found dying, and serves    *)
(* one task at a time: the timer service implements its contract.          *)
(***************************************************************************)
THEOREM Refinement == Spec => ImplementsContract
BY InitContract, NextContract, Inductive, PTL DEF Spec, ImplementsContract,
   Contract!Spec

LEMMA OrderTold == IInv => ListInOrder
<1> SUFFICES ASSUME IInv PROVE ListInOrder OBVIOUS
<1>1. PICK s : TaskList(mem, used, s) BY DEF IInv, InOrder
<1>2. IsList(mem, ListHead, s) BY <1>1 DEF TaskList
<1>3. list_for_each(mem, ListHead) = s /\ list_for_each_prev(mem, ListHead) = Backwards(s)
  BY <1>2, ForEachMeets, ForEachPrevMeets
<1>4. Len(s) \in Nat /\ DOMAIN s = 1 .. Len(s) /\ Len(Backwards(s)) = Len(s)
  BY <1>2 DEF IsList, Backwards
<1>5. \A i \in 1 .. Len(s) : Backwards(s)[i] = s[Len(s) + 1 - i]
  BY DEF Backwards
<1> QED BY <1>1, <1>3, <1>4, <1>5 DEF ListInOrder, TaskList

-----------------------------------------------------------------------------
(***************************************************************************)
(* The history.  A handler is called of a task found working, and once a   *)
(* task was halted, or was called once for all, it is not found working    *)
(* again, save in the visit that is under way.                             *)
(***************************************************************************)
HTypes ==
    /\ gap \in [Slot -> Nat] /\ steady \in [Slot -> BOOLEAN]
    /\ shots \in [Slot -> 0 .. 2] /\ halted \in [Slot -> BOOLEAN]
    /\ late \in [Slot -> 0 .. 2]

CallsInv ==
    \A n \in used :
        /\ halted[n] => tk[n].state # "WORK"
        /\ late[n] > 0 => halted[n]
        /\ late[n] <= 1
        /\ tk[n].is_once => shots[n] <= 1
        /\ tk[n].is_once /\ shots[n] > 0
              => \/ tk[n].state # "WORK"
                 \/ n = cur /\ pc \in {"run", "finish"}
                 \/ pc = "crash"
        /\ n = cur /\ pc \in {"work", "call"}
              => late[n] = 0 /\ (tk[n].is_once => shots[n] = 0)

(***************************************************************************)
(* What a pass has seen lies behind the cursor, and what it still owes a   *)
(* visit lies before it, at its next entry or beyond.                      *)
(***************************************************************************)
PassInv ==
    /\ seen \subseteq used
    /\ pc \in {"off", "sleep"} => owed = {}
    /\ pc = "switch" => cur \notin seen
    /\ pc \in Active =>
          /\ \A n \in seen : n = cur \/ born[n] < born[cur]
          /\ \A n \in owed : /\ n \in used
                             /\ n = cur => pc = "switch"
                             /\ n # cur => nxt # ListHead /\ born[nxt] <= born[n]

(***************************************************************************)
(* The counter of a task is ahead of the visits since it was last due by   *)
(* less than a period, and by one when the task was left alone.            *)
(***************************************************************************)
PeriodInv ==
    \A n \in used :
        /\ gap[n] > 0 => /\ tk[n].periodic > 0 /\ tk[n].cnt > 0
                         /\ gap[n] <= (tk[n].cnt - 1) % tk[n].periodic
        /\ IF n = cur /\ pc \in {"call", "run", "finish"}
           THEN tk[n].cnt = 0 /\ gap[n] = 0
           ELSE steady[n] => tk[n].cnt = gap[n] + 1 \/ pc = "crash"

HInv == HTypes /\ CallsInv /\ PassInv /\ PeriodInv

LEMMA HistoryStep == HNext \/ UNCHANGED hvars => [Next]_vars
BY DEF HNext, hvars, Added, Halted, Retimed, PassBegins, Visited, PassedOver, FellDue,
       Called, Reclaimed, Untold, Next, Caller, Service

LEMMA InitHInv == HInit => HInv
BY DEF HInit, Init, HInv, HTypes, CallsInv, PassInv, PeriodInv, Active

LEMMA ResetType ==
    ASSUME NEW T, NEW f \in [Slot -> T], NEW S, NEW v \in T
    PROVE  Reset(f, S, v) \in [Slot -> T]
BY DEF Reset

LEMMA HTypesStep == ASSUME IInv, HTypes, HNext \/ UNCHANGED hvars PROVE HTypes'
<1>1. CASE Added
  <2>1. /\ 0 \in Nat /\ FALSE \in BOOLEAN /\ 0 \in 0 .. 2
        /\ gap \in [Slot -> Nat] /\ steady \in [Slot -> BOOLEAN]
        /\ shots \in [Slot -> 0 .. 2] /\ halted \in [Slot -> BOOLEAN]
        /\ late \in [Slot -> 0 .. 2]
    BY DEF HTypes
  <2> DEFINE S == used' \ used
  <2>2. /\ gap' = Reset(gap, S, 0) /\ steady' = Reset(steady, S, FALSE)
        /\ shots' = Reset(shots, S, 0) /\ halted' = Reset(halted, S, FALSE)
        /\ late' = Reset(late, S, 0)
    BY <1>1 DEF Added
  <2> HIDE DEF S
  <2>3. gap' \in [Slot -> Nat] /\ steady' \in [Slot -> BOOLEAN]
    BY <2>1, <2>2, ResetType
  <2>4. shots' \in [Slot -> 0 .. 2] /\ halted' \in [Slot -> BOOLEAN]
    BY <2>1, <2>2, ResetType
  <2>5. late' \in [Slot -> 0 .. 2]
    BY <2>1, <2>2, ResetType
  <2> QED BY <2>3, <2>4, <2>5 DEF HTypes
<1>2. CASE Halted
  <2>1. PICK h \in Handler : halted' = Reset(halted, Found(h), TRUE) BY <1>2 DEF Halted
  <2>2. TRUE \in BOOLEAN /\ halted \in [Slot -> BOOLEAN] BY DEF HTypes
  <2> HIDE DEF Found
  <2>3. halted' \in [Slot -> BOOLEAN] BY <2>1, <2>2, ResetType
  <2>4. UNCHANGED <<gap, steady, shots, late>> BY <1>2 DEF Halted
  <2> QED BY <2>3, <2>4 DEF HTypes
<1>3. CASE Retimed
  <2>1. PICK h \in Handler : /\ gap' = Reset(gap, Found(h), 0)
                             /\ steady' = Reset(steady, Found(h), FALSE)
    BY <1>3 DEF Retimed
  <2>2. 0 \in Nat /\ FALSE \in BOOLEAN /\ gap \in [Slot -> Nat] /\ steady \in [Slot -> BOOLEAN]
    BY DEF HTypes
  <2>3. gap' \in [Slot -> Nat] /\ steady' \in [Slot -> BOOLEAN]
    BY <2>1, <2>2, ResetType
  <2>4. UNCHANGED <<shots, halted, late>> BY <1>3 DEF Retimed
  <2> QED BY <2>3, <2>4 DEF HTypes
<1>4. CASE PassBegins \/ Visited \/ Reclaimed \/ UNCHANGED hvars
           \/ (Untold /\ UNCHANGED <<pass, story>>)
  BY <1>4 DEF PassBegins, Visited, Reclaimed, story, hvars, HTypes
<1>5. CASE PassedOver
  <2>1. UNCHANGED <<steady, shots, halted, late>> /\ gap' = [gap EXCEPT ![cur] = @ + 1]
    BY <1>5 DEF PassedOver
  <2>2. cur \in Slot BY <1>5 DEF PassedOver, NotDue, IInv, CursorOrdered, Active, TypeOK
  <2> QED BY <2>1, <2>2 DEF HTypes
<1>6. CASE FellDue
  <2>1. /\ UNCHANGED <<shots, halted, late>> /\ gap' = [gap EXCEPT ![cur] = 0]
        /\ steady' = [steady EXCEPT ![cur] = TRUE]
    BY <1>6 DEF FellDue
  <2>2. gap' \in [Slot -> Nat] BY <2>1 DEF HTypes
  <2>3. steady' \in [Slot -> BOOLEAN] BY <2>1 DEF HTypes
  <2> QED BY <2>1, <2>2, <2>3 DEF HTypes
<1>7. CASE Called
  <2>1. /\ UNCHANGED <<gap, steady, halted>>
        /\ shots' = [shots EXCEPT ![cur] = AtMostTwo(@ + 1)]
        /\ late' = [late EXCEPT ![cur] = IF halted[cur] THEN AtMostTwo(@ + 1) ELSE @]
    BY <1>7 DEF Called
  <2>2. \A k \in 0 .. 2 : AtMostTwo(k + 1) \in 0 .. 2 BY DEF AtMostTwo
  <2>3. cur \in Slot
    BY <1>7 DEF Called, CallInline, CallThread, IInv, CursorOrdered, Active, TypeOK
  <2>4. AtMostTwo(shots[cur] + 1) \in 0 .. 2 /\ AtMostTwo(late[cur] + 1) \in 0 .. 2
    BY <2>2, <2>3 DEF HTypes
  <2> QED BY <2>1, <2>3, <2>4 DEF HTypes
<1> QED BY <1>1, <1>2, <1>3, <1>4, <1>5, <1>6, <1>7 DEF HNext

\* the words a new task brings, and what it leaves of the others
LEMMA AddedWords ==
    ASSUME IInv, Added
    PROVE  \E n \in Slot \ used :
             /\ used' = used \cup {n} /\ UNCHANGED <<pc, cur, nxt, owed, seen>>
             /\ born'[n] = calls + 1 /\ tk'[n].cnt = 0 /\ tk'[n].state = "WORK"
             /\ gap'[n] = 0 /\ steady'[n] = FALSE /\ shots'[n] = 0
             /\ halted'[n] = FALSE /\ late'[n] = 0
             /\ \A k \in used : /\ born'[k] = born[k] /\ tk'[k] = tk[k]
                                /\ gap'[k] = gap[k] /\ steady'[k] = steady[k]
                                /\ shots'[k] = shots[k] /\ halted'[k] = halted[k]
                                /\ late'[k] = late[k]
<1>1. PICK h \in Handler \cup {NoHandler}, p \in Period, once \in BOOLEAN,
           type \in {"NORMAL", "THREAD"} : timer_task_add(h, p, once, type)
  BY DEF Added
<1>2. PICK n \in Slot \ used :
          /\ used' = used \cup {n}
          /\ tk' = [tk EXCEPT ![n] = [handler |-> h, periodic |-> p,
                                      is_once |-> once, task_type |-> type,
                                      cnt |-> 0, state |-> "WORK"]]
          /\ born' = [born EXCEPT ![n] = calls']
  BY <1>1 DEF timer_task_add
<1>3. /\ calls' = calls + 1 /\ UNCHANGED <<pc, cur, nxt, owed, seen>>
  BY <1>1 DEF timer_task_add, CallAPI, service, Added, pass
<1>4. /\ used \subseteq Slot /\ used' \ used = {n}
      /\ born'[n] = calls + 1 /\ tk'[n].cnt = 0 /\ tk'[n].state = "WORK"
      /\ \A k \in used : born'[k] = born[k] /\ tk'[k] = tk[k]
  BY <1>2, <1>3 DEF IInv, TypeOK
<1>5. \A f, v : Reset(f, {n}, v)[n] = v /\ \A k \in used : Reset(f, {n}, v)[k] = f[k]
  BY <1>2, <1>4 DEF Reset
<1>6. /\ gap' = Reset(gap, {n}, 0) /\ steady' = Reset(steady, {n}, FALSE)
      /\ shots' = Reset(shots, {n}, 0) /\ halted' = Reset(halted, {n}, FALSE)
      /\ late' = Reset(late, {n}, 0)
  BY <1>4 DEF Added
<1>7. /\ gap'[n] = 0 /\ steady'[n] = FALSE /\ shots'[n] = 0
      /\ halted'[n] = FALSE /\ late'[n] = 0
  BY <1>5, <1>6
<1>8. ASSUME NEW k \in used
      PROVE  /\ gap'[k] = gap[k] /\ steady'[k] = steady[k] /\ shots'[k] = shots[k]
             /\ halted'[k] = halted[k] /\ late'[k] = late[k]
  BY <1>5, <1>6
<1> QED BY <1>2, <1>3, <1>4, <1>7, <1>8

\* pause and cancel write the state of the tasks they find
LEMMA HaltedWords ==
    ASSUME IInv, Halted
    PROVE  /\ UNCHANGED <<used, born, pc, cur, nxt, owed, seen, gap, steady, shots, late>>
           /\ \A n \in Slot : /\ tk'[n].is_once = tk[n].is_once /\ tk'[n].cnt = tk[n].cnt
                              /\ tk'[n].periodic = tk[n].periodic
                              /\ \/ tk'[n].state # "WORK" /\ halted'[n] = TRUE
                                 \/ tk'[n].state = tk[n].state /\ halted'[n] = halted[n]
<1>1. PICK h \in Handler : /\ timer_task_pause(h) \/ timer_task_cancel(h)
                           /\ halted' = Reset(halted, Found(h), TRUE)
  BY DEF Halted
<1> HIDE DEF Found
<1>2. UNCHANGED <<used, born, pc, cur, nxt, owed, seen, gap, steady, shots, late>>
  BY <1>1 DEF Halted, timer_task_pause, timer_task_cancel, service, pass
<1>3. PICK st \in {"PAUSE", "DIE"} :
         tk' = [n \in Slot |-> IF n \in Found(h) THEN [tk[n] EXCEPT !.state = st] ELSE tk[n]]
  BY <1>1 DEF timer_task_pause, timer_task_cancel
<1>4. \A n \in Slot : tk[n] \in Task BY DEF IInv, TypeOK
<1>5. \A n \in Slot : halted'[n] = IF n \in Found(h) THEN TRUE ELSE halted[n]
  BY <1>1 DEF Reset
<1>6. \A n \in Slot : /\ tk'[n].is_once = tk[n].is_once /\ tk'[n].cnt = tk[n].cnt
                      /\ tk'[n].periodic = tk[n].periodic
                      /\ tk'[n].state = IF n \in Found(h) THEN st ELSE tk[n].state
  BY <1>3, <1>4 DEF Task
<1> QED BY <1>2, <1>5, <1>6

\* modify_periodic writes the period of the tasks it finds
LEMMA RetimedWords ==
    ASSUME IInv, Retimed
    PROVE  /\ UNCHANGED <<used, born, pc, cur, nxt, owed, seen, shots, halted, late>>
           /\ \A n \in Slot : /\ tk'[n].is_once = tk[n].is_once /\ tk'[n].cnt = tk[n].cnt
                              /\ tk'[n].state = tk[n].state
                              /\ \/ gap'[n] = 0 /\ steady'[n] = FALSE
                                 \/ /\ tk'[n].periodic = tk[n].periodic
                                    /\ gap'[n] = gap[n] /\ steady'[n] = steady[n]
<1>1. PICK h \in Handler, p \in Period :
          /\ timer_task_modify_periodic(h, p)
          /\ gap' = Reset(gap, Found(h), 0)
          /\ steady' = Reset(steady, Found(h), FALSE)
  BY DEF Retimed
<1> HIDE DEF Found
<1>2. UNCHANGED <<used, born, pc, cur, nxt, owed, seen, shots, halted, late>>
  BY <1>1 DEF Retimed, timer_task_modify_periodic, service, pass
<1>3. tk' = [n \in Slot |-> IF n \in Found(h) THEN [tk[n] EXCEPT !.periodic = p] ELSE tk[n]]
  BY <1>1 DEF timer_task_modify_periodic
<1>4. \A n \in Slot : tk[n] \in Task BY DEF IInv, TypeOK
<1>5. \A n \in Slot : /\ gap'[n] = IF n \in Found(h) THEN 0 ELSE gap[n]
                      /\ steady'[n] = IF n \in Found(h) THEN FALSE ELSE steady[n]
  BY <1>1 DEF Reset
<1>6. \A n \in Slot : /\ tk'[n].is_once = tk[n].is_once /\ tk'[n].cnt = tk[n].cnt
                      /\ tk'[n].state = tk[n].state
                      /\ n \notin Found(h) => tk'[n].periodic = tk[n].periodic
  BY <1>3, <1>4 DEF Task
<1> QED BY <1>2, <1>5, <1>6

\* where the service is when it moves on, and what it finds there
LEMMA MoveOn ==
    ASSUME IInv, PassedOver \/ (Finish /\ UNCHANGED <<pass, story>>)
    PROVE  /\ cur \in used /\ used \subseteq Slot /\ UNCHANGED <<used, born>>
           /\ pc' \in {"sleep", "switch"}
           /\ \A n \in Slot \ {cur} : tk'[n] = tk[n]
           /\ tk'[cur].is_once = tk[cur].is_once /\ tk'[cur].periodic = tk[cur].periodic
           /\ tk'[cur].cnt = tk[cur].cnt + 1
<1>1. cur \in used /\ used \subseteq Slot
  BY DEF PassedOver, NotDue, Finish, IInv, CursorOrdered, Active, TypeOK
<1>2. tk[cur] \in Task /\ tk \in [Slot -> Task] BY <1>1 DEF IInv, TypeOK
<1> QED BY <1>1, <1>2 DEF PassedOver, NotDue, Finish, Advance, Task
-----------------------------------------------------------------------------

LEMMA CallsStep ==
    ASSUME IInv, HTypes, CallsInv, HNext \/ UNCHANGED hvars
    PROVE  CallsInv'
<1> USE DEF CallsInv
<1>1. \A n \in used : n \in Slot /\ tk[n].state \in {"WORK", "PAUSE", "DIE"}
                      /\ shots[n] \in 0 .. 2 /\ late[n] \in 0 .. 2
                      /\ halted[n] \in BOOLEAN
  BY DEF IInv, TypeOK, Task, HTypes
<1>2. CASE Added
  <2>1. PICK n \in Slot \ used :
             /\ used' = used \cup {n} /\ UNCHANGED <<pc, cur>>
             /\ shots'[n] = 0 /\ halted'[n] = FALSE /\ late'[n] = 0
             /\ \A k \in used : /\ tk'[k] = tk[k] /\ shots'[k] = shots[k]
                                /\ halted'[k] = halted[k] /\ late'[k] = late[k]
    BY <1>2, AddedWords
  <2> QED BY <2>1
<1>3. CASE Halted
  <2>1. /\ UNCHANGED <<used, pc, cur, shots, late>>
        /\ \A n \in Slot : /\ tk'[n].is_once = tk[n].is_once
                           /\ \/ tk'[n].state # "WORK" /\ halted'[n] = TRUE
                              \/ tk'[n].state = tk[n].state /\ halted'[n] = halted[n]
    BY <1>3, HaltedWords
  <2> QED BY <1>1, <2>1
<1>4. CASE Retimed
  <2>1. /\ UNCHANGED <<used, pc, cur, shots, halted, late>>
        /\ \A n \in Slot : tk'[n].is_once = tk[n].is_once /\ tk'[n].state = tk[n].state
    BY <1>4, RetimedWords
  <2> QED BY <1>1, <2>1
<1>5. CASE PassBegins
  BY <1>5 DEF PassBegins, BeginPass, story
<1>6. CASE Visited
  <2>1. UNCHANGED <<used, tk, shots, halted, late>> /\ pc = "switch"
    BY <1>6 DEF Visited, Switch, story
  <2>2. \/ pc' \in {"switch", "sleep", "dying"}
        \/ pc' = "work" /\ tk[cur].state = "WORK" /\ cur' = cur
    BY <1>6 DEF Visited, Switch, Advance
  <2> QED BY <1>1, <2>1, <2>2
<1>7. CASE PassedOver
  <2>1. /\ UNCHANGED <<used, shots, halted, late>> /\ pc' \in {"switch", "sleep"}
        /\ pc = "work"
    BY <1>7 DEF PassedOver, NotDue, Advance
  <2>2. \A n \in used : tk'[n].is_once = tk[n].is_once /\ tk'[n].state = tk[n].state
    <3>1. cur \in Slot /\ tk \in [Slot -> Task]
      BY <1>7, MoveOn DEF IInv, TypeOK
    <3> QED BY <1>1, <1>7, <3>1 DEF PassedOver, NotDue, Task
  <2> QED BY <2>1, <2>2
<1>8. CASE FellDue
  <2>1. UNCHANGED <<used, shots, halted, late, cur>> /\ pc' = "call" /\ pc = "work"
    BY <1>8 DEF FellDue, Due
  <2>2. \A n \in used : tk'[n].is_once = tk[n].is_once /\ tk'[n].state = tk[n].state
    <3>1. \A n \in used : tk[n] \in Task /\ n \in Slot BY DEF IInv, TypeOK
    <3>2. tk \in [Slot -> Task] BY DEF IInv, TypeOK
    <3> QED BY <1>8, <3>1, <3>2 DEF FellDue, Due, Task
  <2> QED BY <2>1, <2>2
<1>9. CASE Called
  <2>1. UNCHANGED <<used, tk, halted, cur>> /\ pc' \in {"run", "finish"} /\ pc = "call"
    BY <1>9 DEF Called, CallInline, CallThread
  <2>2. cur \in used BY <2>1 DEF IInv, CursorOrdered, Active
  <2>3. late[cur] = 0 /\ (tk[cur].is_once => shots[cur] = 0)
    BY <2>1, <2>2
  <2>4. \A n \in used \ {cur} : shots'[n] = shots[n] /\ late'[n] = late[n]
    BY <1>9 DEF Called, HTypes
  <2>5. /\ late'[cur] = IF halted[cur] THEN 1 ELSE 0
        /\ tk[cur].is_once => shots'[cur] = 1
    BY <1>1, <1>9, <2>2, <2>3 DEF Called, HTypes, AtMostTwo
  <2> QED BY <1>1, <2>1, <2>2, <2>4, <2>5
<1>10. CASE Reclaimed
  BY <1>10 DEF Reclaimed, Reclaim, Advance, story
<1>11. CASE Untold /\ UNCHANGED <<pass, story>>
  <2>1. UNCHANGED <<shots, halted, late>> BY <1>11 DEF story
  <2>2. CASE Finish
    <3>1. pc = "finish" /\ pc' \in {"sleep", "switch"} /\ UNCHANGED used
      BY <2>2 DEF Finish, Advance
    <3>2. cur \in used /\ tk \in [Slot -> Task] /\ \A n \in used : tk[n] \in Task
      BY <3>1 DEF IInv, CursorOrdered, Active, TypeOK
    <3>3. /\ \A n \in used \ {cur} : tk'[n] = tk[n]
          /\ tk'[cur].is_once = tk[cur].is_once
          /\ tk'[cur].state = IF tk[cur].is_once THEN "DIE" ELSE tk[cur].state
      BY <1>1, <2>2, <3>2 DEF Finish, Task
    <3> QED BY <1>1, <2>1, <3>1, <3>2, <3>3
  <2>3. CASE ~Finish
    <3>1. /\ UNCHANGED <<used, tk, cur>>
          /\ \/ pc' = pc \/ pc' = "crash" \/ (pc' = "sleep" /\ pc = "off")
             \/ (pc' = "finish" /\ pc = "run")
      <4>1. CASE HandlerReturns BY <4>1 DEF HandlerReturns
      <4>2. CASE DivideByZero BY <4>2 DEF DivideByZero
      <4>3. CASE AddWithoutMemory BY <4>3 DEF AddWithoutMemory
      <4>4. CASE timer_task_init BY <4>4 DEF timer_task_init
      <4>5. CASE \E h \in Handler : ThreadEnds(h) BY <4>5 DEF ThreadEnds, service
      <4> QED BY <1>11, <2>3, <4>1, <4>2, <4>3, <4>4, <4>5 DEF Untold
    <3> QED BY <2>1, <3>1
  <2> QED BY <2>2, <2>3
<1>12. CASE UNCHANGED hvars
  BY <1>12 DEF hvars, vars, story
<1> QED BY <1>2, <1>3, <1>4, <1>5, <1>6, <1>7, <1>8, <1>9, <1>10, <1>11, <1>12 DEF HNext

LEMMA PassStep ==
    ASSUME IInv, PassInv, IInv', HNext \/ UNCHANGED hvars
    PROVE  PassInv'
<1>1. /\ used \subseteq Slot /\ \A n \in used : n \in Slot /\ born[n] \in Nat /\ n # ListHead
      /\ mem \in Memory /\ InOrder(mem, used)
  BY DEF IInv, TypeOK
<1>2. /\ seen \subseteq used
      /\ pc = "switch" => cur \notin seen
      /\ pc \in Active =>
            /\ \A n \in seen : n = cur \/ born[n] < born[cur]
            /\ \A n \in owed : /\ n \in used
                               /\ n = cur => pc = "switch"
                               /\ n # cur => nxt # ListHead /\ born[nxt] <= born[n]
      /\ pc \in Active => cur \in used
  BY DEF PassInv, IInv, CursorOrdered
\* the service moves on from a task that owes no visit
<1>3. ASSUME NEW m \in Memory, NEW S \in {used, used \ {cur}}, InOrder(m, S), Advance(m),
             pc \in Active, used' = S, UNCHANGED born,
             owed' \subseteq owed \ {cur}, seen' \subseteq seen \cup {cur}, seen' \subseteq S
      PROVE  PassInv'
  <2>1. /\ pc' \in {"sleep", "switch"} /\ cur' = nxt
        /\ pc' = "switch" <=> nxt # ListHead
        /\ pc' = "switch" => /\ cur' \in S \ {cur}
                             /\ born[cur] < born[cur']
                             /\ nxt' = m.next[cur']
    BY <1>3, AdvanceKeepsCursor DEF IInv
  <2>2. ASSUME pc' = "switch", NEW n \in seen'
        PROVE  born[n] < born[cur'] /\ n # cur'
    BY <1>1, <1>2, <1>3, <2>1, <2>2
  <2>3. \A n \in owed' : n \in S /\ nxt # ListHead /\ born[nxt] <= born[n]
    BY <1>2, <1>3
  <2>4. ASSUME pc' = "switch", NEW n \in owed', n # cur'
        PROVE  nxt' # ListHead /\ born[nxt'] <= born[n]
    <3>1. S \in SUBSET Slot /\ cur' \in S /\ n \in S /\ born[cur'] <= born[n]
      BY <1>1, <1>3, <2>1, <2>3, <2>4
    <3>2. born[cur'] # born[n]
      BY <1>3, <2>4, <3>1, Succession DEF IInv
    <3>3. born[cur'] < born[n] BY <1>1, <1>3, <3>1, <3>2
    <3>4. m.next[cur'] # ListHead /\ born[m.next[cur']] <= born[n]
      BY <1>3, <3>1, <3>3, Succession DEF IInv
    <3> QED BY <2>1, <2>4, <3>4
  <2>5. pc' = "sleep" => owed' = {} BY <2>1, <2>3
  <2> QED BY <1>3, <2>1, <2>2, <2>3, <2>4, <2>5 DEF PassInv, Active
\* nothing moves
<1>4. ASSUME UNCHANGED <<used, born, cur, nxt, owed, seen>>,
             \/ pc' = pc \/ pc' = "crash"
             \/ pc \in {"work", "call", "run"} /\ pc' \in {"call", "run", "finish"}
             \/ pc = "off" /\ pc' = "sleep"
      PROVE  PassInv'
  BY <1>4 DEF PassInv, Active
<1>5. CASE Added
  <2>1. PICK n \in Slot \ used :
             /\ used' = used \cup {n} /\ UNCHANGED <<pc, cur, nxt, owed, seen>>
             /\ \A k \in used : born'[k] = born[k]
    BY <1>5, AddedWords
  <2>2. pc \in Active /\ nxt # ListHead => nxt \in used
    BY DEF IInv, CursorOrdered, Ring
  <2> QED BY <1>2, <2>1, <2>2 DEF PassInv
<1>6. CASE Halted BY <1>4, <1>6, HaltedWords
<1>7. CASE Retimed BY <1>4, <1>7, RetimedWords
<1>8. CASE PassBegins
  <2>1. /\ UNCHANGED <<used, born>> /\ owed' = used /\ seen' = {} /\ pc' = "switch"
        /\ cur' = mem.next[ListHead] /\ nxt' = mem.next[cur'] /\ cur' # ListHead
    BY <1>8 DEF PassBegins, BeginPass, list_empty
  <2>2. used \in SUBSET Slot BY <1>1
  <2>3. cur' \in used /\ \A n \in used : born[cur'] <= born[n]
    BY <1>1, <2>1, <2>2, FirstEntry DEF IInv
  <2>4. ASSUME NEW n \in used, n # cur'
        PROVE  nxt' # ListHead /\ born[nxt'] <= born[n]
    <3>1. born[cur'] # born[n] BY <1>1, <2>2, <2>3, <2>4, Succession DEF IInv
    <3>2. born[cur'] < born[n] BY <1>1, <2>3, <3>1
    <3> QED BY <1>1, <2>1, <2>2, <2>3, <3>2, Succession DEF IInv
  <2> QED BY <2>1, <2>4 DEF PassInv, Active
<1>9. CASE Visited
  <2>1. /\ pc = "switch" /\ UNCHANGED <<mem, used, born>> /\ pc \in Active
        /\ owed' = owed \ {cur} /\ seen' = seen \cup {cur}
    BY <1>9 DEF Visited, Switch, Active
  <2>2. CASE Advance(mem)
    <3>1. used \in {used, used \ {cur}} /\ seen' \subseteq used BY <1>2, <2>1
    <3> QED BY <1>1, <1>3, <2>1, <2>2, <3>1
  <2>3. CASE ~Advance(mem)
    <3>1. pc' \in {"work", "dying"} /\ UNCHANGED <<cur, nxt>>
      BY <1>9, <2>3 DEF Visited, Switch
    <3> QED BY <1>2, <2>1, <3>1 DEF PassInv, Active
  <2> QED BY <2>2, <2>3
<1>10. CASE PassedOver \/ (Finish /\ UNCHANGED <<pass, story>>)
  <2>1. /\ pc \in {"work", "finish"} /\ pc \in Active /\ UNCHANGED <<mem, used, born, owed, seen>>
        /\ Advance(mem)
    BY <1>10 DEF PassedOver, NotDue, Finish, pass, Active
  <2>2. cur \notin owed /\ used \in {used, used \ {cur}} BY <1>2, <2>1
  <2> QED BY <1>1, <1>2, <1>3, <2>1, <2>2
<1>11. CASE FellDue \/ Called
  <2>1. /\ UNCHANGED <<used, born, cur, nxt, owed, seen>>
        /\ pc \in {"work", "call", "run"} /\ pc' \in {"call", "run", "finish"}
    BY <1>11 DEF FellDue, Called, Due, CallInline, CallThread, pass
  <2> QED BY <1>4, <2>1
<1>12. CASE Reclaimed
  <2>1. /\ pc = "dying" /\ pc \in Active /\ UNCHANGED <<born, owed>>
        /\ mem' = list_del(mem, cur) /\ used' = used \ {cur} /\ Advance(mem')
        /\ seen' = seen \ {cur}
    BY <1>12 DEF Reclaimed, Reclaim, Active
  <2>2. mem' \in Memory /\ InOrder(mem', used')
    <3>1. InOrder(mem, used)' BY DEF IInv
    <3> QED BY <2>1, <3>1 DEF IInv, TypeOK, InOrder, TaskList
  <2>3. cur \notin owed /\ used' \in {used, used \ {cur}} BY <1>2, <2>1
  <2> QED BY <1>2, <1>3, <2>1, <2>2, <2>3
<1>13. CASE Untold /\ ~Finish /\ UNCHANGED <<pass, story>>
  <2>1. UNCHANGED <<owed, seen>> BY <1>13 DEF pass
  <2>2. CASE HandlerReturns BY <1>4, <2>1, <2>2 DEF HandlerReturns
  <2>3. CASE DivideByZero BY <1>4, <2>1, <2>3 DEF DivideByZero
  <2>4. CASE AddWithoutMemory BY <1>4, <2>1, <2>4 DEF AddWithoutMemory
  <2>5. CASE timer_task_init BY <1>4, <2>1, <2>5 DEF timer_task_init
  <2>6. CASE \E h \in Handler : ThreadEnds(h) BY <1>4, <2>1, <2>6 DEF ThreadEnds, service
  <2> QED BY <1>13, <2>2, <2>3, <2>4, <2>5, <2>6 DEF Untold
<1>14. CASE UNCHANGED hvars
  BY <1>4, <1>14 DEF hvars, vars, pass
<1> QED
  BY <1>5, <1>6, <1>7, <1>8, <1>9, <1>10, <1>11, <1>12, <1>13, <1>14 DEF HNext

-----------------------------------------------------------------------------
LEMMA Division ==
    ASSUME NEW p \in Nat, p > 0, NEW c \in Nat
    PROVE  \E q \in Nat : c % p = c - q * p /\ c % p \in 0 .. p - 1
<1>1. c % p = c - p * (c \div p) OBVIOUS
<1>2. c \div p \in Nat /\ c % p \in 0 .. p - 1 OBVIOUS
<1>3. p * (c \div p) = (c \div p) * p BY <1>2
<1> QED BY <1>1, <1>2, <1>3

\* a counter that is not at a multiple of the period is one further in it
LEMMA NextRemainder ==
    ASSUME NEW p \in Nat, p > 0, NEW c \in Nat, c > 0, c % p # 0
    PROVE  c % p = ((c - 1) % p) + 1
<1>1. PICK q \in Nat : c % p = c - q * p /\ c % p \in 0 .. p - 1 BY Division
<1>2. c - 1 = q * p + ((c % p) - 1) /\ (c % p) - 1 \in 0 .. p - 1
  <2>1. q * p \in Nat OBVIOUS
  <2> QED BY <1>1, <2>1
<1>3. \A r \in 0 .. p - 1 : (q * p + r) % p = r OBVIOUS
<1>4. (q * p + ((c % p) - 1)) % p = (c % p) - 1 BY <1>2, <1>3
<1> QED BY <1>1, <1>2, <1>4

LEMMA FirstMultiple ==
    ASSUME NEW p \in Nat, p > 0, NEW c \in 1 .. p
    PROVE  c % p = 0 <=> c = p
OBVIOUS

LEMMA PeriodStep ==
    ASSUME IInv, HTypes, PeriodInv, HNext \/ UNCHANGED hvars
    PROVE  PeriodInv'
<1> DEFINE Held(n) ==
        /\ gap[n] > 0 => /\ tk[n].periodic > 0 /\ tk[n].cnt > 0
                         /\ gap[n] <= (tk[n].cnt - 1) % tk[n].periodic
        /\ IF n = cur /\ pc \in {"call", "run", "finish"}
           THEN tk[n].cnt = 0 /\ gap[n] = 0
           ELSE steady[n] => tk[n].cnt = gap[n] + 1 \/ pc = "crash"
<1>1. /\ \A n \in used : /\ n \in Slot /\ gap[n] \in Nat /\ tk[n] \in Task
                         /\ tk[n].cnt \in Nat /\ tk[n].periodic \in Nat
      /\ \A n \in used : Held(n)
      /\ tk \in [Slot -> Task] /\ gap \in [Slot -> Nat] /\ steady \in [Slot -> BOOLEAN]
  BY DEF IInv, TypeOK, Task, HTypes, PeriodInv
<1>2. ASSUME \A n \in used' : Held(n)' PROVE PeriodInv'
  BY <1>2 DEF PeriodInv
\* a task whose numbers are kept, while the service is where it was or is not calling it
<1>3. ASSUME NEW n \in used, UNCHANGED <<gap[n], steady[n]>>,
             tk'[n].cnt = tk[n].cnt, tk'[n].periodic = tk[n].periodic,
             \/ UNCHANGED <<pc, cur>>
             \/ pc' = "crash"
             \/ UNCHANGED cur /\ pc \in {"call", "run"} /\ pc' \in {"run", "finish"}
             \/ /\ pc' \notin {"call", "run", "finish"} /\ pc # "crash"
                /\ n # cur \/ pc \notin {"call", "run", "finish"}
             \/ n # cur /\ UNCHANGED cur /\ pc # "crash"
      PROVE  Held(n)'
  BY <1>1, <1>3
<1> HIDE DEF Held
<1>4. CASE Added
  <2>1. PICK n \in Slot \ used :
             /\ used' = used \cup {n} /\ UNCHANGED <<pc, cur>>
             /\ tk'[n].cnt = 0 /\ gap'[n] = 0 /\ steady'[n] = FALSE
             /\ \A k \in used : /\ tk'[k] = tk[k] /\ gap'[k] = gap[k]
                                /\ steady'[k] = steady[k]
    BY <1>4, AddedWords
  <2>2. Held(n)' BY <2>1 DEF Held
  <2>3. \A k \in used : Held(k)' BY <1>3, <2>1
  <2> QED BY <1>2, <2>1, <2>2, <2>3
<1>5. CASE Halted
  <2>1. /\ UNCHANGED <<used, pc, cur, gap, steady>>
        /\ \A n \in Slot : tk'[n].cnt = tk[n].cnt /\ tk'[n].periodic = tk[n].periodic
    BY <1>5, HaltedWords
  <2> QED BY <1>1, <1>2, <1>3, <2>1
<1>6. CASE Retimed
  <2>1. /\ UNCHANGED <<used, pc, cur>>
        /\ \A n \in Slot : /\ tk'[n].cnt = tk[n].cnt
                           /\ \/ gap'[n] = 0 /\ steady'[n] = FALSE
                              \/ /\ tk'[n].periodic = tk[n].periodic
                                 /\ gap'[n] = gap[n] /\ steady'[n] = steady[n]
    BY <1>6, RetimedWords
  <2>2. ASSUME NEW n \in used PROVE Held(n)'
    <3>1. CASE gap'[n] = 0 /\ steady'[n] = FALSE BY <1>1, <2>1, <3>1 DEF Held
    <3>2. CASE ~(gap'[n] = 0 /\ steady'[n] = FALSE) BY <1>1, <1>3, <2>1, <3>2
    <3> QED BY <3>1, <3>2
  <2> QED BY <1>2, <2>1, <2>2
<1>7. CASE PassBegins
  <2>1. UNCHANGED <<used, tk, gap, steady>> /\ pc = "sleep" /\ pc' = "switch"
    BY <1>7 DEF PassBegins, BeginPass, story
  <2> QED BY <1>2, <1>3, <2>1
<1>8. CASE Visited
  <2>1. /\ UNCHANGED <<used, tk, gap, steady>> /\ pc = "switch"
        /\ pc' \in {"switch", "sleep", "work", "dying"}
    BY <1>8 DEF Visited, Switch, Advance, story
  <2> QED BY <1>2, <1>3, <2>1
<1>9. CASE PassedOver
  <2>1. /\ cur \in used /\ UNCHANGED used /\ pc' \in {"sleep", "switch"}
        /\ \A n \in Slot \ {cur} : tk'[n] = tk[n]
        /\ tk'[cur].periodic = tk[cur].periodic /\ tk'[cur].cnt = tk[cur].cnt + 1
    BY <1>9, MoveOn
  <2>2. PICK k \in used : k = cur BY <2>1
  <2>3. /\ pc = "work" /\ tk[k].periodic # 0 /\ tk[k].cnt % tk[k].periodic # 0
        /\ gap'[k] = gap[k] + 1 /\ UNCHANGED steady
        /\ \A n \in used \ {k} : gap'[n] = gap[n]
    BY <1>1, <1>9, <2>2 DEF PassedOver, NotDue, IsDue
  <2>4. \A n \in used \ {k} : Held(n)' BY <1>1, <1>3, <2>1, <2>2, <2>3
  <2>5. Held(k)'
    <3> DEFINE c == tk[k].cnt
               p == tk[k].periodic
    <3>1. c \in Nat /\ p \in Nat /\ p > 0 /\ c % p # 0 /\ gap[k] \in Nat
      BY <1>1, <2>3
    <3>2. /\ gap[k] > 0 => c > 0 /\ gap[k] <= (c - 1) % p
          /\ steady[k] => c = gap[k] + 1
      <4>1. Held(k) /\ pc = "work" BY <1>1, <2>3
      <4> QED BY <4>1 DEF Held
    <3>3. tk'[k].cnt = c + 1 /\ tk'[k].periodic = p BY <2>1, <2>2
    <3> HIDE DEF c, p
    <3>4. c % p \in 0 .. p - 1 BY <3>1, Division
    <3>5. gap[k] + 1 <= c % p
      <4>1. CASE gap[k] = 0 BY <3>1, <3>4, <4>1
      <4>2. CASE gap[k] > 0
        <5>1. c % p = ((c - 1) % p) + 1 BY <3>1, <3>2, <4>2, NextRemainder
        <5>2. c - 1 \in Nat BY <3>1, <3>2, <4>2
        <5>3. (c - 1) % p \in 0 .. p - 1 BY <3>1, <5>2, Division
        <5> QED BY <3>1, <3>2, <4>2, <5>1, <5>3
      <4> QED BY <3>1, <4>1, <4>2
    <3>6. (c + 1) - 1 = c /\ c + 1 > 0 BY <3>1
    <3>7. pc' \notin {"call", "run", "finish"} BY <2>1
    <3> QED BY <2>3, <3>1, <3>2, <3>3, <3>5, <3>6, <3>7 DEF Held
  <2> QED BY <1>2, <2>1, <2>4, <2>5
<1>10. CASE FellDue
  <2>1. cur \in used BY <1>10 DEF FellDue, Due, IInv, CursorOrdered, Active
  <2>2. PICK k \in used : k = cur BY <2>1
  <2>3. /\ UNCHANGED <<used, cur>> /\ pc = "work" /\ pc' = "call"
        /\ \A n \in used \ {k} : tk'[n] = tk[n] /\ gap'[n] = gap[n] /\ steady'[n] = steady[n]
        /\ tk'[k].cnt = 0 /\ gap'[k] = 0
    BY <1>1, <1>10, <2>2 DEF FellDue, Due, Task
  <2>4. \A n \in used \ {k} : Held(n)' BY <1>3, <2>2, <2>3
  <2>5. Held(k)' BY <2>2, <2>3 DEF Held
  <2> QED BY <1>2, <2>3, <2>4, <2>5
<1>11. CASE Called
  <2>1. /\ UNCHANGED <<used, tk, cur, gap, steady>> /\ pc = "call" /\ pc' \in {"run", "finish"}
    BY <1>11 DEF Called, CallInline, CallThread
  <2> QED BY <1>2, <1>3, <2>1
<1>12. CASE Reclaimed
  <2>1. /\ UNCHANGED <<tk, gap, steady>> /\ pc = "dying" /\ pc' \in {"switch", "sleep"}
        /\ used' \subseteq used
    BY <1>12 DEF Reclaimed, Reclaim, Advance, story
  <2> QED BY <1>2, <1>3, <2>1
<1>13. CASE Finish /\ UNCHANGED <<pass, story>>
  <2>1. /\ cur \in used /\ UNCHANGED <<used, gap, steady>> /\ pc = "finish"
        /\ pc' \in {"sleep", "switch"}
        /\ \A n \in Slot \ {cur} : tk'[n] = tk[n]
        /\ tk'[cur].cnt = tk[cur].cnt + 1
    BY <1>13, MoveOn DEF Finish, story
  <2>2. PICK k \in used : k = cur BY <2>1
  <2>3. \A n \in used \ {k} : Held(n)' BY <1>1, <1>3, <2>1, <2>2
  <2>4. tk[k].cnt = 0 /\ gap[k] = 0
    <3>1. Held(k) BY <1>1
    <3> QED BY <2>1, <2>2, <3>1 DEF Held
  <2>5. Held(k)' BY <2>1, <2>2, <2>4 DEF Held
  <2> QED BY <1>2, <2>1, <2>3, <2>5
<1>14. CASE Untold /\ ~Finish /\ UNCHANGED <<pass, story>>
  <2>1. UNCHANGED <<gap, steady>> BY <1>14 DEF story
  <2>2. /\ UNCHANGED <<used, tk, cur>>
        /\ \/ pc' = pc \/ pc' = "crash" \/ (pc = "run" /\ pc' = "finish")
           \/ (pc = "off" /\ pc' = "sleep")
    <3>1. CASE HandlerReturns BY <3>1 DEF HandlerReturns
    <3>2. CASE DivideByZero BY <3>2 DEF DivideByZero
    <3>3. CASE AddWithoutMemory BY <3>3 DEF AddWithoutMemory
    <3>4. CASE timer_task_init BY <3>4 DEF timer_task_init
    <3>5. CASE \E h \in Handler : ThreadEnds(h) BY <3>5 DEF ThreadEnds, service
    <3> QED BY <1>14, <3>1, <3>2, <3>3, <3>4, <3>5 DEF Untold
  <2> QED BY <1>2, <1>3, <2>1, <2>2
<1>15. CASE UNCHANGED hvars
  <2>1. UNCHANGED <<used, tk, pc, cur, gap, steady>> BY <1>15 DEF hvars, vars, story
  <2> QED BY <1>2, <1>3, <2>1
<1> QED
  BY <1>4, <1>5, <1>6, <1>7, <1>8, <1>9, <1>10, <1>11, <1>12, <1>13, <1>14, <1>15
  DEF HNext, Untold

LEMMA NextHInv == IInv /\ IInv' /\ HInv /\ [HNext]_hvars => HInv'
BY HTypesStep, CallsStep, PassStep, PeriodStep DEF HInv

(***************************************************************************)
(* What the history records of visits and calls always fits the list, the  *)
(* states of the tasks and the place of the service's cursor.              *)
(***************************************************************************)
THEOREM HistoryInductive == HSpec => [](IInv /\ HInv)
<1>1. HInit => IInv /\ HInv BY InitIInv, InitHInv DEF HInit
<1>2. (IInv /\ HInv) /\ [HNext]_hvars => (IInv /\ HInv)'
  BY NextIInv, HistoryStep, NextHInv
<1> QED BY <1>1, <1>2, PTL DEF HSpec

(***************************************************************************)
(* The handler of a one-shot task is started at most once, and after pause *)
(* or cancel has returned a handler is started at most once more, however  *)
(* the calls fall between the steps of the service thread.                 *)
(***************************************************************************)
THEOREM CallsAreBounded == HSpec => []CallsBounded
<1>1. HInv => CallsBounded
  BY DEF HInv, CallsInv, CallsBounded, OneShotOnce, AtMostOneLateCall
<1> QED BY <1>1, HistoryInductive, PTL

(***************************************************************************)
(* For any number of tasks, added, freed and re-timed during the walk: the *)
(* list stays in the order of the calls and reads the same backwards, each *)
(* pass visits every task it found listed exactly once, and no task misses *)
(* its period or, left alone, strays from it.                              *)
(***************************************************************************)
THEOREM VisitsAreSound == HSpec => []VisitsSound
<1>1. IInv /\ HInv => VisitsSound
  <2> SUFFICES ASSUME IInv, HInv PROVE VisitsSound OBVIOUS
  <2>1. ListInOrder BY OrderTold
  <2>2. OncePerPass /\ PassCoversAll BY DEF HInv, PassInv, OncePerPass, PassCoversAll
  <2>3. \A n \in used : /\ gap[n] \in Nat /\ tk[n].cnt \in Nat /\ tk[n].periodic \in Nat
                        /\ tk[n].cnt \in Nat
    BY DEF HInv, HTypes, IInv, TypeOK, Task
  <2>4. ASSUME NEW n \in used, tk[n].periodic > 0 PROVE gap[n] < tk[n].periodic
    <3>1. CASE gap[n] = 0 BY <2>3, <2>4, <3>1
    <3>2. CASE gap[n] > 0
      <4> DEFINE c == tk[n].cnt - 1
                 p == tk[n].periodic
      <4>1. c \in Nat /\ gap[n] <= c % p BY <2>3, <3>2 DEF HInv, PeriodInv
      <4>2. p \in Nat /\ p > 0 BY <2>3, <2>4
      <4> HIDE DEF c, p
      <4>3. c % p \in 0 .. p - 1 BY <4>1, <4>2, Division
      <4>4. gap[n] < p BY <2>3, <4>1, <4>2, <4>3
      <4> QED BY <4>4 DEF p
    <3> QED BY <2>3, <3>1, <3>2
  <2>5. NeverOverdue BY <2>4 DEF NeverOverdue
  <2>6. ASSUME pc = "work", steady[cur], tk[cur].periodic > 0
        PROVE  IsDue(cur) <=> gap[cur] + 1 = tk[cur].periodic
    <3>1. cur \in used BY <2>6 DEF IInv, CursorOrdered, Active
    <3>2. tk[cur].cnt = gap[cur] + 1 BY <2>6, <3>1 DEF HInv, PeriodInv
    <3>3. gap[cur] < tk[cur].periodic BY <2>4, <2>6, <3>1
    <3>4. tk[cur].periodic \in Nat /\ tk[cur].cnt \in 1 .. tk[cur].periodic
      BY <2>3, <3>1, <3>2, <3>3
    <3>5. tk[cur].cnt % tk[cur].periodic = 0 <=> tk[cur].cnt = tk[cur].periodic
      BY <2>6, <3>4, FirstMultiple
    <3> QED BY <3>2, <3>5 DEF IsDue
  <2>7. PeriodKept BY <2>6 DEF PeriodKept
  <2> QED BY <2>1, <2>2, <2>5, <2>7 DEF VisitsSound
<1> QED BY <1>1, HistoryInductive, PTL
=============================================================================
