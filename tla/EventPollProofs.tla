--------------------------- MODULE EventPollProofs ---------------------------
(***************************************************************************)
(* What EventPoll.tla's runs check on three nodes, proved for any number   *)
(* of nodes, descriptors, application threads and calls, when one event    *)
(* loop uses the list of nodes.                                            *)
(***************************************************************************)
EXTENDS EventPoll, LinkedListProofs

\* the list of nodes has no lock: two loops would read each other's freed nodes
OneLoop == \A e, f \in Poll : e = f

USE NodeAssumption, ActorAssumption, PoisonAssumption

Call == [stage : Stages, ep : Poll, node : Block, step : {-1, 1}, size : Int]

Places == {"wait", "loop", "poll", "batch", "scan", "call", "close", "closed"}

\* the nodes that event_register has allocated and not listed yet
Claimed(a) == op[a].stage \in {"ctl", "link"}

Listed(n) == n \in used /\ \A a \in Actor : Claimed(a) => op[a].node # n

Types ==
    /\ mem \in Memory
    /\ used \subseteq Block
    /\ fd_of \in [Block -> Fd \cup {Poison}]
    /\ fd_size \in [Poll -> Int]
    /\ pc \in [Poll -> Places]
    /\ ev = [f \in Poll |-> ev[f]]
    /\ p \in [Poll -> Node \cup {Poison}]
    /\ op \in [Actor -> Call \cup {Idle}]

\* the list holds the allocated nodes that are not claimed
RingHolds ==
    \E s \in Seq(Block) : /\ IsList(mem, ListHead, s)
                          /\ \A n \in Block : In(n, s) <=> Listed(n)

\* each registration works on a node of its own
CallsApart ==
    /\ \A a \in Actor : Claimed(a) => op[a].node \in used
    /\ \A a, b \in Actor : Claimed(a) /\ Claimed(b) /\ op[a].node = op[b].node => a = b

\* only a callback unlinks a node, and not that of the descriptor it is called for
UnlinkSafe ==
    \A a \in Actor : At(a, "unlink") =>
        a \in Poll /\ pc[a] = "call" /\ Listed(op[a].node) /\ fd_of[op[a].node] # ev[a]

\* the dispatch loop stands on the list, and on the node it has found
LoopOnList ==
    \A e \in Poll :
        /\ pc[e] = "scan" => p[e] = ListHead \/ (p[e] \in Block /\ Listed(p[e]))
        /\ pc[e] = "call" => p[e] \in Block /\ Listed(p[e]) /\ fd_of[p[e]] = ev[e]

\* the descriptor of a node is open, once epoll_ctl has been asked about it
FilesOpen ==
    \A n \in used : fd_of[n] \in open \/ \E a \in Actor : At(a, "ctl") /\ op[a].node = n

DInv == Types /\ RingHolds /\ CallsApart /\ UnlinkSafe /\ LoopOnList /\ FilesOpen

-----------------------------------------------------------------------------
\* what Proceed and Return do to the calls
LEMMA Proceeds ==
    ASSUME op \in [Actor -> Call \cup {Idle}], NEW a \in Actor, op[a] \in Call,
           NEW stage \in Stages, Proceed(a, stage)
    PROVE  /\ op' \in [Actor -> Call \cup {Idle}] /\ op'[a] \in Call
           /\ op'[a].stage = stage /\ op'[a].node = op[a].node /\ op'[a].ep = op[a].ep
           /\ op'[a].step = op[a].step /\ op'[a].size = op[a].size
           /\ \A b \in Actor \ {a} : op'[b] = op[b]
<1>1. op' = [op EXCEPT ![a] = [op[a] EXCEPT !.stage = stage]] BY DEF Proceed
<1>2. PICK c : c = [op[a] EXCEPT !.stage = stage] OBVIOUS
<1>3. /\ c \in Call /\ c.stage = stage /\ c.node = op[a].node /\ c.ep = op[a].ep
      /\ c.step = op[a].step /\ c.size = op[a].size
  BY <1>2 DEF Call
<1>4. op' = [op EXCEPT ![a] = c] BY <1>1, <1>2
<1> QED BY <1>3, <1>4

LEMMA Returns ==
    ASSUME op \in [Actor -> Call \cup {Idle}], NEW a \in Actor, Return(a)
    PROVE  /\ op' \in [Actor -> Call \cup {Idle}]
           /\ op'[a] = Idle /\ op'[a].stage = "idle"
           /\ \A b \in Actor \ {a} : op'[b] = op[b]
BY DEF Return, Idle

\* a call that is open has the fields of a call
LEMMA Open ==
    ASSUME op \in [Actor -> Call \cup {Idle}], NEW a \in Actor, op[a].stage \in Stages
    PROVE  /\ op[a] \in Call /\ op[a].node \in Block /\ op[a].ep \in Poll
           /\ op[a].step \in {-1, 1} /\ op[a].size \in Int
<1>1. op[a] # Idle BY DEF Idle, Stages
<1> QED BY <1>1 DEF Call

LEMMA InitD == Init => DInv
<1> SUFFICES ASSUME Init PROVE DInv OBVIOUS
<1>1. Types
  <2>1. mem \in Memory BY DEF Init, Memory
  <2>2. op \in [Actor -> Call \cup {Idle}] BY DEF Init
  <2>4. pc \in [Poll -> Places] BY DEF Init, Places
  <2>3. /\ used \subseteq Block /\ fd_of \in [Block -> Fd \cup {Poison}]
        /\ fd_size \in [Poll -> Int] /\ ev = [f \in Poll |-> ev[f]]
        /\ p \in [Poll -> Node \cup {Poison}]
    BY DEF Init
  <2> QED BY <2>1, <2>2, <2>3, <2>4 DEF Types
<1>2. ListHead \in Node /\ mem.next[ListHead] = ListHead /\ mem.prev[ListHead] = ListHead
  BY DEF Init
<1>3. IsList(mem, ListHead, <<>>) /\ <<>> \in Seq(Block)
  <2>1. Len(<<>>) = 0 /\ <<>> \in Seq(Node \ {ListHead}) OBVIOUS
  <2>2. Neighbour(<<>>, ListHead, 0) = ListHead /\ Neighbour(<<>>, ListHead, 0 + 1) = ListHead
    BY <2>1 DEF Neighbour
  <2> QED BY <1>2, <2>1, <2>2 DEF IsList, Distinct
<1>4. \A a \in Actor : op[a].stage = "idle" BY DEF Init, Idle
<1>5. RingHolds
  <2>1. \A n \in Block : ~In(n, <<>>) BY DEF In
  <2>2. \A n \in Block : ~Listed(n) BY DEF Listed, Init
  <2> QED BY <1>3, <2>1, <2>2 DEF RingHolds
<1>6. CallsApart /\ UnlinkSafe BY <1>4 DEF CallsApart, UnlinkSafe, Claimed, At
<1>7. LoopOnList BY DEF LoopOnList, Init
<1>8. FilesOpen BY DEF FilesOpen, Init
<1> QED BY <1>1, <1>5, <1>6, <1>7, <1>8 DEF DInv

-----------------------------------------------------------------------------
(* The steps of the calls.                                                 *)

\* what a step keeps that leaves the listed nodes listed and the threads alone
LEMMA Kept ==
    ASSUME DInv, pc' = pc, ev' = ev, p' = p,
           \A n \in Block : Listed(n) => Listed(n)' /\ fd_of'[n] = fd_of[n],
           \A b \in Actor : At(b, "unlink")' => At(b, "unlink") /\ op'[b].node = op[b].node
    PROVE  UnlinkSafe' /\ LoopOnList'
<1>1. \A n : Listed(n) => n \in Block BY DEF DInv, Types, Listed
<1>2. UnlinkSafe'
  <2> SUFFICES ASSUME NEW b \in Actor, At(b, "unlink")'
               PROVE  /\ b \in Poll /\ pc'[b] = "call"
                      /\ (Listed(op[b].node) /\ fd_of[op[b].node] # ev[b])'
    BY DEF UnlinkSafe
  <2>1. b \in Poll /\ pc[b] = "call" /\ Listed(op[b].node) /\ fd_of[op[b].node] # ev[b]
    BY DEF DInv, UnlinkSafe
  <2>2. PICK n : n = op[b].node OBVIOUS
  <2>3. n \in Block /\ Listed(n) /\ fd_of[n] # ev[b] /\ op'[b].node = n BY <1>1, <2>1, <2>2
  <2>4. Listed(n)' /\ fd_of'[n] # ev'[b] BY <2>3
  <2> QED BY <2>1, <2>3, <2>4 DEF Listed
<1>3. LoopOnList' BY DEF DInv, LoopOnList
<1> QED BY <1>2, <1>3

LEMMA RegisterBeginD ==
    ASSUME DInv, NEW a \in Actor, NEW e \in Poll, NEW fd \in Fd, RegisterBegin(a, e, fd)
    PROVE  DInv'
<1>1. Types /\ op \in [Actor -> Call \cup {Idle}] /\ op[a] = Idle
  BY DEF DInv, Types, RegisterBegin, BeginCall
<1>2. PICK n \in Block \ used :
        /\ used' = used \cup {n} /\ fd_of' = [fd_of EXCEPT ![n] = fd]
        /\ op' = [op EXCEPT ![a] = [stage |-> "ctl", ep |-> e, node |-> n,
                                    step |-> 1, size |-> 0]]
  BY DEF RegisterBegin
<1>3. PICK c : c = [stage |-> "ctl", ep |-> e, node |-> n, step |-> 1, size |-> 0] OBVIOUS
<1>4. c \in Call /\ c.stage = "ctl" /\ c.node = n BY <1>3 DEF Call, Stages
<1>5. /\ op' \in [Actor -> Call \cup {Idle}] /\ op'[a] = c
      /\ \A b \in Actor \ {a} : op'[b] = op[b]
  BY <1>1, <1>2, <1>3, <1>4
<1>6. mem' = mem /\ fd_size' = fd_size /\ open' = open /\ pc' = pc /\ ev' = ev /\ p' = p
  BY DEF RegisterBegin, kernel, thread
<1>7. Types' BY <1>1, <1>2, <1>5, <1>6 DEF Types
<1>8. ~Claimed(a) /\ ~At(a, "unlink") /\ ~At(a, "ctl") BY <1>1 DEF Claimed, At, Idle
<1>9. \A m \in Block : Listed(m)' <=> Listed(m)
  BY <1>2, <1>4, <1>5, <1>8 DEF Listed, Claimed
<1>10. RingHolds' BY <1>6, <1>9 DEF DInv, RingHolds
<1>11. CallsApart'
  <2>1. \A b \in Actor : Claimed(b)' => op'[b].node \in used'
    BY <1>2, <1>4, <1>5 DEF DInv, CallsApart, Claimed
  <2>2. ASSUME NEW b \in Actor, NEW d \in Actor, Claimed(b)', Claimed(d)', op'[b].node = op'[d].node
        PROVE  b = d
    <3>1. ASSUME NEW g \in Actor \ {a}, Claimed(g)' PROVE op'[g].node # n
      <4>1. Claimed(g) /\ op[g].node \in used BY <1>5, <3>1 DEF DInv, CallsApart, Claimed
      <4> QED BY <1>2, <1>5, <4>1
    <3>2. CASE b # a /\ d # a BY <1>5, <2>2, <3>2 DEF DInv, CallsApart, Claimed
    <3> QED BY <1>4, <1>5, <2>2, <3>1, <3>2
  <2> QED BY <2>1, <2>2 DEF CallsApart
<1>12. UnlinkSafe' /\ LoopOnList'
  <2>1. \A m \in Block : Listed(m) => fd_of'[m] = fd_of[m] BY <1>1, <1>2 DEF Listed, Types
  <2>2. \A b \in Actor : At(b, "unlink")' => At(b, "unlink") /\ op'[b].node = op[b].node
    BY <1>4, <1>5 DEF At
  <2> QED BY <1>6, <1>9, <2>1, <2>2, Kept
<1>13. FilesOpen'
  <2>1. ASSUME NEW m \in used
        PROVE  fd_of'[m] \in open' \/ \E b \in Actor : At(b, "ctl")' /\ op'[b].node = m
    <3>1. fd_of'[m] = fd_of[m] BY <1>1, <1>2, <2>1 DEF Types
    <3> QED BY <1>5, <1>6, <1>8, <2>1, <3>1 DEF DInv, FilesOpen, At
  <2>2. At(a, "ctl")' /\ op'[a].node = n BY <1>4, <1>5 DEF At
  <2> QED BY <1>2, <2>1, <2>2 DEF FilesOpen
<1> QED BY <1>7, <1>10, <1>11, <1>12, <1>13 DEF DInv

LEMMA RegisterCtlD ==
    ASSUME DInv, NEW a \in Actor, RegisterCtl(a)
    PROVE  DInv'
<1>1. /\ Types /\ op \in [Actor -> Call \cup {Idle}] /\ op[a].stage = "ctl"
      /\ Proceed(a, "link") /\ fd_of[op[a].node] \in open
  BY DEF DInv, Types, RegisterCtl, At, Refused
<1>2. op[a] \in Call /\ op[a].node \in Block BY <1>1, Open DEF Stages
<1>3. /\ op' \in [Actor -> Call \cup {Idle}]
      /\ op'[a].stage = "link" /\ op'[a].node = op[a].node
      /\ \A b \in Actor \ {a} : op'[b] = op[b]
  BY <1>1, <1>2, Proceeds DEF Stages
<1>4. /\ mem' = mem /\ used' = used /\ fd_of' = fd_of /\ fd_size' = fd_size /\ open' = open
      /\ pc' = pc /\ ev' = ev /\ p' = p
  BY DEF RegisterCtl, thread
<1>5. Types' BY <1>1, <1>3, <1>4 DEF Types
<1>6. \A b \in Actor : /\ Claimed(b)' <=> Claimed(b)
                       /\ op'[b].node = op[b].node
                       /\ At(b, "unlink")' <=> At(b, "unlink")
  BY <1>1, <1>3 DEF Claimed, At
<1>7. \A n \in Block : Listed(n)' <=> Listed(n) BY <1>4, <1>6 DEF Listed
<1>8. RingHolds' BY <1>4, <1>7 DEF DInv, RingHolds
<1>9. CallsApart'
  <2>1. \A b \in Actor : Claimed(b)' => op'[b].node \in used'
    BY <1>4, <1>6 DEF DInv, CallsApart
  <2>2. \A b, d \in Actor : Claimed(b)' /\ Claimed(d)' /\ op'[b].node = op'[d].node => b = d
    BY <1>6 DEF DInv, CallsApart
  <2> QED BY <2>1, <2>2 DEF CallsApart
<1>10. UnlinkSafe' /\ LoopOnList' BY <1>4, <1>6, <1>7, Kept
<1>11. FilesOpen'
  <2> SUFFICES ASSUME NEW n \in used
               PROVE  fd_of[n] \in open \/ \E b \in Actor : At(b, "ctl")' /\ op'[b].node = n
    BY <1>4 DEF FilesOpen
  <2>1. CASE n = op[a].node BY <1>1, <2>1
  <2>2. CASE n # op[a].node BY <1>3, <2>2 DEF DInv, FilesOpen, At
  <2> QED BY <2>1, <2>2
<1> QED BY <1>5, <1>8, <1>9, <1>10, <1>11 DEF DInv

LEMMA RegisterFailsD ==
    ASSUME DInv, NEW a \in Actor, RegisterFails(a)
    PROVE  DInv'
<1> DEFINE n == op[a].node
<1>1. /\ Types /\ op \in [Actor -> Call \cup {Idle}] /\ op[a].stage = "ctl" /\ Return(a)
      /\ used' = used \ {n}
  BY DEF DInv, Types, RegisterFails, At
<1>2. op[a] \in Call /\ n \in Block BY <1>1, Open DEF Stages
<1>3. /\ op' \in [Actor -> Call \cup {Idle}] /\ op'[a].stage = "idle"
      /\ \A b \in Actor \ {a} : op'[b] = op[b]
  BY <1>1, Returns
<1>4. /\ mem' = mem /\ fd_of' = fd_of /\ fd_size' = fd_size /\ open' = open
      /\ pc' = pc /\ ev' = ev /\ p' = p
  BY DEF RegisterFails, kernel, thread
<1>5. Types' BY <1>1, <1>3, <1>4 DEF Types
<1>6. /\ ~Claimed(a)' /\ ~At(a, "unlink")' /\ ~At(a, "ctl")' /\ Claimed(a)
      /\ \A b \in Actor \ {a} : (Claimed(b)' <=> Claimed(b)) /\ op'[b].node = op[b].node
  BY <1>1, <1>3 DEF Claimed, At
<1>7. \A b \in Actor \ {a} : Claimed(b) => op[b].node # n
  BY <1>6 DEF DInv, CallsApart
<1> HIDE DEF n
<1>8. \A m \in Block : Listed(m)' <=> Listed(m)
  <2> TAKE m \in Block
  <2>1. CASE m = n BY <1>1, <1>6, <2>1 DEF Listed, n
  <2>2. CASE m # n BY <1>1, <1>6, <2>2 DEF Listed, n
  <2> QED BY <2>1, <2>2
<1>9. RingHolds' BY <1>4, <1>8 DEF DInv, RingHolds
<1>10. CallsApart'
  <2>1. \A b \in Actor : Claimed(b)' => op'[b].node \in used'
    BY <1>1, <1>6, <1>7 DEF DInv, CallsApart
  <2>2. \A b, d \in Actor : Claimed(b)' /\ Claimed(d)' /\ op'[b].node = op'[d].node => b = d
    BY <1>6 DEF DInv, CallsApart
  <2> QED BY <2>1, <2>2 DEF CallsApart
<1>11. UnlinkSafe' /\ LoopOnList'
  <2>1. \A b \in Actor : At(b, "unlink")' => At(b, "unlink") /\ op'[b].node = op[b].node
    BY <1>3, <1>6 DEF At
  <2> QED BY <1>4, <1>8, <2>1, Kept
<1>12. FilesOpen'
  <2> SUFFICES ASSUME NEW m \in used \ {n}
               PROVE  fd_of[m] \in open \/ \E b \in Actor : At(b, "ctl")' /\ op'[b].node = m
    BY <1>1, <1>4 DEF FilesOpen
  <2> QED BY <1>3 DEF DInv, FilesOpen, At, n
<1> QED BY <1>5, <1>9, <1>10, <1>11, <1>12 DEF DInv

LEMMA RegisterLinkD ==
    ASSUME DInv, NEW a \in Actor, RegisterLink(a)
    PROVE  DInv'
<1> DEFINE n == op[a].node
<1>1. /\ Types /\ op \in [Actor -> Call \cup {Idle}] /\ op[a].stage = "link"
      /\ Proceed(a, "count") /\ mem' = list_add_tail(mem, n, ListHead)
  BY DEF DInv, Types, RegisterLink, At
<1>2. op[a] \in Call /\ n \in Block BY <1>1, Open DEF Stages
<1>3. /\ op' \in [Actor -> Call \cup {Idle}]
      /\ op'[a].stage = "count" /\ op'[a].node = n
      /\ \A b \in Actor \ {a} : op'[b] = op[b]
  BY <1>1, <1>2, Proceeds DEF Stages
<1>4. /\ used' = used /\ fd_of' = fd_of /\ fd_size' = fd_size /\ open' = open
      /\ pc' = pc /\ ev' = ev /\ p' = p
  BY DEF RegisterLink, kernel, thread
<1>5. /\ ~Claimed(a)' /\ ~At(a, "unlink")' /\ ~At(a, "ctl")' /\ ~At(a, "ctl") /\ Claimed(a)
      /\ \A b \in Actor \ {a} : (Claimed(b)' <=> Claimed(b)) /\ op'[b].node = op[b].node
  BY <1>1, <1>3 DEF Claimed, At
<1>6. n \in used /\ \A b \in Actor \ {a} : Claimed(b) => op[b].node # n
  BY <1>5 DEF DInv, CallsApart
<1>7. ~Listed(n) BY <1>5 DEF Listed
<1> HIDE DEF n
<1>8. \A m \in Block : Listed(m)' <=> m = n \/ Listed(m)
  <2> TAKE m \in Block
  <2>1. CASE m = n BY <1>4, <1>5, <1>6, <2>1 DEF Listed
  <2>2. CASE m # n BY <1>4, <1>5, <2>2 DEF Listed, n
  <2> QED BY <2>1, <2>2
<1>9. mem' \in Memory /\ RingHolds'
  <2>1. PICK s \in Seq(Block) : /\ IsList(mem, ListHead, s)
                                /\ \A m \in Block : In(m, s) <=> Listed(m)
    BY DEF DInv, RingHolds
  <2>2. /\ mem \in Memory /\ n \in Node \ {ListHead} /\ \A i \in 1 .. Len(s) : s[i] # n
    BY <1>1, <1>2, <1>7, <2>1 DEF In, Types
  <2>3. mem' \in Memory /\ IsList(mem', ListHead, Append(s, n)) BY <1>1, <2>1, <2>2, AddLast
  <2>4. Append(s, n) \in Seq(Block) /\ \A m \in Block : In(m, Append(s, n)) <=> m = n \/ In(m, s)
    BY <1>2, <2>1, InSeqs
  <2>5. \A m \in Block : In(m, Append(s, n)) <=> Listed(m)' BY <1>8, <2>1, <2>4
  <2> QED BY <2>3, <2>4, <2>5 DEF RingHolds
<1>10. Types' BY <1>1, <1>3, <1>4, <1>9 DEF Types
<1>11. CallsApart'
  <2>1. \A b \in Actor : Claimed(b)' => op'[b].node \in used'
    BY <1>4, <1>5 DEF DInv, CallsApart
  <2>2. \A b, d \in Actor : Claimed(b)' /\ Claimed(d)' /\ op'[b].node = op'[d].node => b = d
    BY <1>5 DEF DInv, CallsApart
  <2> QED BY <2>1, <2>2 DEF CallsApart
<1>12. UnlinkSafe' /\ LoopOnList'
  <2>1. \A b \in Actor : At(b, "unlink")' => At(b, "unlink") /\ op'[b].node = op[b].node
    BY <1>3, <1>5 DEF At
  <2> QED BY <1>4, <1>8, <2>1, Kept
<1>13. FilesOpen'
  <2> SUFFICES ASSUME NEW m \in used
               PROVE  fd_of[m] \in open \/ \E b \in Actor : At(b, "ctl")' /\ op'[b].node = m
    BY <1>4 DEF FilesOpen
  <2> QED BY <1>3, <1>5 DEF DInv, FilesOpen, At
<1> QED BY <1>9, <1>10, <1>11, <1>12, <1>13 DEF DInv

\* only a callback comes here, on the thread that runs it
LEMMA OwnLoop ==
    ASSUME NEW a \in Actor, NEW e \in Poll, NEW fd \in Fd, UnregisterCtl(a, e, fd)
    PROVE  a = e /\ a \in Poll /\ pc[a] = "call" /\ fd # ev[a] /\ op[a] = Idle
BY DEF UnregisterCtl, BeginCall, MayUnregister

\* the node that event_unregister finds is in the list
LEMMA FoundListed ==
    ASSUME DInv, NEW fd, NEW n \in Found(fd)
    PROVE  n \in Block /\ Listed(n) /\ fd_of[n] = fd
<1>1. PICK s \in Seq(Block) : /\ IsList(mem, ListHead, s)
                              /\ \A m \in Block : In(m, s) <=> Listed(m)
  BY DEF DInv, RingHolds
<1>2. list_for_each(mem, ListHead) = s /\ DOMAIN s = 1 .. Len(s) BY <1>1, ForEachMeets
<1>3. n \in Block /\ fd_of[n] = fd /\ \E i \in DOMAIN s : s[i] = n BY <1>2 DEF Found
<1> QED BY <1>1, <1>2, <1>3 DEF In

LEMMA UnregisterCtlD ==
    ASSUME DInv, NEW a \in Actor, NEW e \in Poll, NEW fd \in Fd, UnregisterCtl(a, e, fd)
    PROVE  DInv'
<1>1. /\ Types /\ op \in [Actor -> Call \cup {Idle}] /\ op[a] = Idle
      /\ a \in Poll /\ pc[a] = "call" /\ fd # ev[a]
  BY OwnLoop DEF DInv, Types
<1>2. PICK n \in Found(fd) :
        op' = [op EXCEPT ![a] = [stage |-> "unlink", ep |-> e, node |-> n, step |-> -1, size |-> 0]]
  BY DEF UnregisterCtl
<1>3. n \in Block /\ Listed(n) /\ fd_of[n] = fd BY FoundListed
<1>4. PICK c : c = [stage |-> "unlink", ep |-> e, node |-> n, step |-> -1, size |-> 0] OBVIOUS
<1>5. c \in Call /\ c.stage = "unlink" /\ c.node = n BY <1>3, <1>4 DEF Call, Stages
<1>6. /\ op' \in [Actor -> Call \cup {Idle}] /\ op'[a] = c
      /\ \A b \in Actor \ {a} : op'[b] = op[b]
  BY <1>1, <1>2, <1>4, <1>5
<1>7. /\ mem' = mem /\ used' = used /\ fd_of' = fd_of /\ fd_size' = fd_size /\ open' = open
      /\ pc' = pc /\ ev' = ev /\ p' = p
  BY DEF UnregisterCtl, thread
<1>8. Types' BY <1>1, <1>6, <1>7 DEF Types
<1>9. /\ ~Claimed(a) /\ ~Claimed(a)' /\ ~At(a, "ctl") /\ ~At(a, "ctl")'
      /\ \A b \in Actor \ {a} : (Claimed(b)' <=> Claimed(b)) /\ op'[b].node = op[b].node
  BY <1>1, <1>5, <1>6 DEF Claimed, At, Idle
<1>10. \A m \in Block : Listed(m)' <=> Listed(m)
  <2> TAKE m \in Block
  <2> QED BY <1>7, <1>9 DEF Listed
<1>11. RingHolds' BY <1>7, <1>10 DEF DInv, RingHolds
<1>12. CallsApart'
  <2>1. \A b \in Actor : Claimed(b)' => op'[b].node \in used'
    BY <1>7, <1>9 DEF DInv, CallsApart
  <2>2. \A b, d \in Actor : Claimed(b)' /\ Claimed(d)' /\ op'[b].node = op'[d].node => b = d
    BY <1>9 DEF DInv, CallsApart
  <2> QED BY <2>1, <2>2 DEF CallsApart
<1>13. UnlinkSafe'
  <2> SUFFICES ASSUME NEW b \in Actor, At(b, "unlink")'
               PROVE  /\ b \in Poll /\ pc'[b] = "call"
                      /\ (Listed(op[b].node) /\ fd_of[op[b].node] # ev[b])'
    BY DEF UnlinkSafe
  <2>1. CASE b = a
    <3>1. op'[b].node = n /\ Listed(n)' /\ fd_of'[n] # ev'[b]
      BY <1>1, <1>3, <1>5, <1>6, <1>7, <1>10, <2>1
    <3> QED BY <1>1, <1>7, <2>1, <3>1 DEF Listed
  <2>2. CASE b # a
    <3>1. At(b, "unlink") /\ op'[b] = op[b] BY <1>6, <2>2 DEF At
    <3>2. b \in Poll /\ pc[b] = "call" /\ Listed(op[b].node) /\ fd_of[op[b].node] # ev[b]
      BY <3>1 DEF DInv, UnlinkSafe
    <3>3. PICK m : m = op[b].node OBVIOUS
    <3>4. m \in Block /\ Listed(m) /\ fd_of[m] # ev[b] /\ op'[b].node = m
      BY <1>1, <3>1, <3>2, <3>3 DEF Listed, Types
    <3>5. Listed(m)' /\ fd_of'[m] # ev'[b] BY <1>7, <1>10, <3>4
    <3> QED BY <1>7, <3>2, <3>4, <3>5 DEF Listed
  <2> QED BY <2>1, <2>2
<1>14. LoopOnList' BY <1>7, <1>10 DEF DInv, LoopOnList
<1>15. FilesOpen'
  <2> SUFFICES ASSUME NEW m \in used
               PROVE  fd_of[m] \in open \/ \E b \in Actor : At(b, "ctl")' /\ op'[b].node = m
    BY <1>7 DEF FilesOpen
  <2> QED BY <1>6, <1>9 DEF DInv, FilesOpen, At
<1> QED BY <1>8, <1>11, <1>12, <1>13, <1>14, <1>15 DEF DInv

LEMMA UnregisterUnlinkD ==
    ASSUME DInv, OneLoop, NEW a \in Actor, UnregisterUnlink(a)
    PROVE  DInv'
<1> DEFINE n == op[a].node
<1>1. /\ Types /\ op \in [Actor -> Call \cup {Idle}] /\ At(a, "unlink") /\ op[a].stage = "unlink"
      /\ Proceed(a, "count") /\ mem' = list_del(mem, n) /\ used' = used \ {n}
  BY DEF DInv, Types, UnregisterUnlink, At
<1>2. op[a] \in Call /\ n \in Block BY <1>1, Open DEF Stages
<1>3. /\ op' \in [Actor -> Call \cup {Idle}]
      /\ op'[a].stage = "count" /\ op'[a].node = n
      /\ \A b \in Actor \ {a} : op'[b] = op[b]
  BY <1>1, <1>2, Proceeds DEF Stages
<1>4. /\ fd_of' = fd_of /\ fd_size' = fd_size /\ open' = open
      /\ pc' = pc /\ ev' = ev /\ p' = p
  BY DEF UnregisterUnlink, kernel, thread
<1>5. /\ ~Claimed(a)' /\ ~Claimed(a) /\ ~At(a, "unlink")' /\ ~At(a, "ctl")' /\ ~At(a, "ctl")
      /\ \A b \in Actor \ {a} : (Claimed(b)' <=> Claimed(b)) /\ op'[b].node = op[b].node
  BY <1>1, <1>3 DEF Claimed, At
<1>6. a \in Poll /\ pc[a] = "call" /\ Listed(n) /\ fd_of[n] # ev[a]
  BY <1>1 DEF DInv, UnlinkSafe
<1> HIDE DEF n
<1>7. \A m \in Block : Listed(m)' <=> m # n /\ Listed(m)
  <2> TAKE m \in Block
  <2> QED BY <1>1, <1>5 DEF Listed
<1>8. mem' \in Memory /\ RingHolds'
  <2>1. PICK s \in Seq(Block) : /\ IsList(mem, ListHead, s)
                                /\ \A m \in Block : In(m, s) <=> Listed(m)
    BY DEF DInv, RingHolds
  <2>2. PICK k \in 1 .. Len(s) : s[k] = n BY <1>2, <1>6, <2>1 DEF In
  <2>3. mem \in Memory BY <1>1 DEF Types
  <2>4. IsList(mem', ListHead, Removed(s, k)) BY <1>1, <2>1, <2>2, <2>3, DelList
  <2>5. mem' \in Memory
    <3>1. /\ Len(s) \in Nat /\ Neighbour(s, ListHead, k) = n
          /\ Neighbour(s, ListHead, k - 1) \in Node /\ Neighbour(s, ListHead, k + 1) \in Node
      <4>1. \A i \in 0 .. Len(s) : /\ Neighbour(s, ListHead, i) \in Node
                                   /\ Neighbour(s, ListHead, i + 1) \in Node
        BY <2>1, Neighbours
      <4>2. Len(s) \in Nat /\ k \in 0 .. Len(s) /\ k - 1 \in 0 .. Len(s) BY <2>1
      <4> QED BY <2>2, <4>1, <4>2 DEF Neighbour
    <3>2. k \in 0 .. Len(s) /\ k - 1 \in 0 .. Len(s) /\ (k - 1) + 1 = k BY <3>1
    <3>3. mem.next[Neighbour(s, ListHead, k)] = Neighbour(s, ListHead, k + 1)
      BY <2>1, <3>2 DEF IsList
    <3>4. mem.prev[Neighbour(s, ListHead, (k - 1) + 1)] = Neighbour(s, ListHead, k - 1)
      BY <2>1, <3>2 DEF IsList
    <3>5. mem.next[n] \in Node /\ mem.prev[n] \in Node BY <3>1, <3>2, <3>3, <3>4
    <3> QED BY <1>1, <1>2, <2>3, <3>5, DelType
  <2>6. Distinct(s) BY <2>1 DEF IsList
  <2>7. /\ Removed(s, k) \in Seq(Block)
        /\ \A m \in Block : In(m, Removed(s, k)) <=> In(m, s) /\ m # n
    BY <2>1, <2>2, <2>6, RemovedWords
  <2>8. \A m \in Block : In(m, Removed(s, k)) <=> Listed(m)' BY <1>7, <2>1, <2>7
  <2> QED BY <2>4, <2>5, <2>7, <2>8 DEF RingHolds
<1>9. Types' BY <1>1, <1>3, <1>4, <1>8 DEF Types
<1>10. CallsApart'
  <2>1. \A b \in Actor : Claimed(b) => op[b].node # n BY <1>6 DEF Listed
  <2>2. \A b \in Actor : Claimed(b)' => op'[b].node \in used'
    BY <1>1, <1>5, <2>1 DEF DInv, CallsApart
  <2>3. \A b, d \in Actor : Claimed(b)' /\ Claimed(d)' /\ op'[b].node = op'[d].node => b = d
    BY <1>5 DEF DInv, CallsApart
  <2> QED BY <2>2, <2>3 DEF CallsApart
<1>11. UnlinkSafe'
  <2>1. \A b \in Actor \ {a} : ~At(b, "unlink")
    BY <1>6 DEF DInv, UnlinkSafe, OneLoop
  <2> QED BY <1>3, <1>5, <2>1 DEF UnlinkSafe, At
<1>12. LoopOnList'
  <2> SUFFICES ASSUME NEW e \in Poll
               PROVE  /\ pc[e] = "scan" => p[e] = ListHead \/ (p[e] \in Block /\ Listed(p[e])')
                      /\ pc[e] = "call" => /\ p[e] \in Block /\ Listed(p[e])'
                                           /\ fd_of[p[e]] = ev[e]
    BY <1>4 DEF LoopOnList
  <2>1. e = a BY <1>6 DEF OneLoop
  <2>2. p[a] \in Block /\ Listed(p[a]) /\ fd_of[p[a]] = ev[a] BY <1>6 DEF DInv, LoopOnList
  <2>3. Listed(p[a])' BY <1>4, <1>6, <1>7, <2>2 DEF Listed
  <2> QED BY <1>4, <1>6, <2>1, <2>2, <2>3
<1>13. FilesOpen'
  <2> SUFFICES ASSUME NEW m \in used \ {n}
               PROVE  fd_of[m] \in open \/ \E b \in Actor : At(b, "ctl")' /\ op'[b].node = m
    BY <1>1, <1>4 DEF FilesOpen
  <2> QED BY <1>3, <1>5 DEF DInv, FilesOpen, At
<1> QED BY <1>8, <1>9, <1>10, <1>11, <1>12, <1>13 DEF DInv

LEMMA CountD ==
    ASSUME DInv, NEW a \in Actor, CountRead(a) \/ CountWrite(a)
    PROVE  DInv'
<1>1. /\ Types /\ op \in [Actor -> Call \cup {Idle}] /\ fd_size \in [Poll -> Int]
      /\ op[a].stage \in {"count", "store"}
  BY DEF DInv, Types, CountRead, CountWrite, At
<1>2. op[a] \in Call /\ op[a].ep \in Poll /\ op[a].step \in {-1, 1} /\ op[a].size \in Int
  BY <1>1, Open DEF Stages
<1>3. /\ mem' = mem /\ used' = used /\ fd_of' = fd_of /\ open' = open
      /\ pc' = pc /\ ev' = ev /\ p' = p
  BY DEF CountRead, CountWrite, kernel, thread
<1>4. /\ op' \in [Actor -> Call \cup {Idle}] /\ fd_size' \in [Poll -> Int]
      /\ op'[a].stage \in {"store", "idle"}
      /\ \A b \in Actor \ {a} : op'[b] = op[b]
  <2>1. CASE CountRead(a)
    <3>1. PICK c : c = [op[a] EXCEPT !.stage = "store", !.size = fd_size[op[a].ep]] OBVIOUS
    <3>2. fd_size[op[a].ep] \in Int BY <1>1, <1>2
    <3>3. c \in Call /\ c.stage = "store" BY <1>2, <3>1, <3>2 DEF Call, Stages
    <3>4. op' = [op EXCEPT ![a] = c]
      <4>1. op' = [op EXCEPT ![a].stage = "store", ![a].size = fd_size[op[a].ep]]
        BY <2>1 DEF CountRead
      <4> QED BY <1>1, <3>1, <4>1
    <3>5. fd_size' = fd_size BY <2>1 DEF CountRead
    <3> QED BY <1>1, <3>3, <3>4, <3>5
  <2>2. CASE CountWrite(a)
    <3>1. fd_size' = [fd_size EXCEPT ![op[a].ep] = op[a].size + op[a].step] /\ Return(a)
      BY <2>2 DEF CountWrite
    <3>2. op[a].size + op[a].step \in Int BY <1>2
    <3>3. fd_size' \in [Poll -> Int] BY <1>1, <1>2, <3>1, <3>2
    <3> QED BY <1>1, <3>1, <3>3, Returns
  <2> QED BY <2>1, <2>2
<1>5. Types' BY <1>1, <1>3, <1>4 DEF Types
<1>6. /\ ~Claimed(a) /\ ~Claimed(a)' /\ ~At(a, "unlink")' /\ ~At(a, "ctl")' /\ ~At(a, "ctl")
      /\ \A b \in Actor \ {a} : (Claimed(b)' <=> Claimed(b)) /\ op'[b].node = op[b].node
  BY <1>1, <1>4 DEF Claimed, At
<1>7. \A m \in Block : Listed(m)' <=> Listed(m)
  <2> TAKE m \in Block
  <2> QED BY <1>3, <1>6 DEF Listed
<1>8. RingHolds' BY <1>3, <1>7 DEF DInv, RingHolds
<1>9. CallsApart'
  <2>1. \A b \in Actor : Claimed(b)' => op'[b].node \in used'
    BY <1>3, <1>6 DEF DInv, CallsApart
  <2>2. \A b, d \in Actor : Claimed(b)' /\ Claimed(d)' /\ op'[b].node = op'[d].node => b = d
    BY <1>6 DEF DInv, CallsApart
  <2> QED BY <2>1, <2>2 DEF CallsApart
<1>10. UnlinkSafe' /\ LoopOnList'
  <2>1. \A b \in Actor : At(b, "unlink")' => At(b, "unlink") /\ op'[b].node = op[b].node
    BY <1>4, <1>6 DEF At
  <2> QED BY <1>3, <1>7, <2>1, Kept
<1>11. FilesOpen'
  <2> SUFFICES ASSUME NEW m \in used
               PROVE  fd_of[m] \in open \/ \E b \in Actor : At(b, "ctl")' /\ op'[b].node = m
    BY <1>3 DEF FilesOpen
  <2> QED BY <1>4, <1>6 DEF DInv, FilesOpen, At
<1> QED BY <1>5, <1>8, <1>9, <1>10, <1>11 DEF DInv

-----------------------------------------------------------------------------
(* The steps of the threads and of the files.                              *)

\* a step that moves no node and no call
LEMMA Unmoved ==
    ASSUME DInv, mem' = mem, used' = used, fd_of' = fd_of, op' = op
    PROVE  /\ \A n \in Block : Listed(n)' <=> Listed(n)
           /\ RingHolds' /\ CallsApart'
<1>1. \A n \in Block : Listed(n)' <=> Listed(n) BY DEF Listed, Claimed
<1>2. RingHolds' BY <1>1 DEF DInv, RingHolds
<1>3. CallsApart' BY DEF DInv, CallsApart, Claimed
<1> QED BY <1>1, <1>2, <1>3

\* the next word of the list head, and of a node in the list
LEMMA NextListed ==
    ASSUME DInv, NEW n, n = ListHead \/ (n \in Block /\ Listed(n))
    PROVE  mem.next[n] = ListHead \/ (mem.next[n] \in Block /\ Listed(mem.next[n]))
<1>1. PICK s \in Seq(Block) : /\ IsList(mem, ListHead, s)
                              /\ \A m \in Block : In(m, s) <=> Listed(m)
  BY DEF DInv, RingHolds
<1>2. n = ListHead \/ In(n, s) BY <1>1
<1>3. PICK m : m = mem.next[n] OBVIOUS
<1>4. m = ListHead \/ In(m, s) BY <1>1, <1>2, <1>3, NextIn
<1>5. In(m, s) => m \in Block BY <1>1 DEF In
<1> QED BY <1>1, <1>3, <1>4, <1>5

\* moving a loop: e goes to another place, perhaps with another event and node
LEMMA Moved ==
    ASSUME DInv, NEW e \in Poll, mem' = mem, used' = used, fd_of' = fd_of, op' = op,
           fd_size' \in [Poll -> Int], open' = open,
           ~At(e, "unlink"),
           pc' \in [Poll -> Places], ev' = [f \in Poll |-> ev'[f]],
           p' \in [Poll -> Node \cup {Poison}],
           \A f \in Poll \ {e} : pc'[f] = pc[f] /\ ev'[f] = ev[f] /\ p'[f] = p[f],
           pc'[e] = "scan" => p'[e] = ListHead \/ (p'[e] \in Block /\ Listed(p'[e])),
           pc'[e] = "call" => p'[e] \in Block /\ Listed(p'[e]) /\ fd_of[p'[e]] = ev'[e]
    PROVE  DInv'
<1>1. (\A n \in Block : Listed(n)' <=> Listed(n)) /\ RingHolds' /\ CallsApart'
  BY Unmoved
<1>2. Types' BY DEF DInv, Types
<1>3. UnlinkSafe'
  <2> SUFFICES ASSUME NEW b \in Actor, At(b, "unlink")'
               PROVE  /\ b \in Poll /\ pc'[b] = "call"
                      /\ (Listed(op[b].node) /\ fd_of[op[b].node] # ev[b])'
    BY DEF UnlinkSafe
  <2>1. At(b, "unlink") /\ b # e BY DEF At
  <2>2. b \in Poll /\ pc[b] = "call" /\ Listed(op[b].node) /\ fd_of[op[b].node] # ev[b]
    BY <2>1 DEF DInv, UnlinkSafe
  <2>3. (Listed(op[b].node) /\ fd_of[op[b].node] # ev[b])'
    <3>1. ev'[b] = ev[b] /\ op'[b].node = op[b].node BY <2>1, <2>2
    <3> QED BY <2>2, <3>1 DEF Listed, Claimed
  <2> QED BY <2>1, <2>2, <2>3
<1>4. LoopOnList'
  <2> SUFFICES ASSUME NEW f \in Poll
               PROVE  /\ pc'[f] = "scan" => p'[f] = ListHead \/ (p'[f] \in Block /\ Listed(p[f])')
                      /\ pc'[f] = "call" => /\ p'[f] \in Block /\ Listed(p[f])'
                                            /\ fd_of'[p'[f]] = ev'[f]
    BY DEF LoopOnList
  <2>1. Listed(p[f])' <=> Listed(p'[f]) BY DEF Listed, Claimed
  <2>2. CASE f = e BY <2>1, <2>2
  <2>3. CASE f # e BY <2>1, <2>3 DEF DInv, LoopOnList
  <2> QED BY <2>2, <2>3
<1>5. FilesOpen' BY DEF DInv, FilesOpen, At
<1> QED BY <1>1, <1>2, <1>3, <1>4, <1>5 DEF DInv

LEMMA ThreadD ==
    ASSUME DInv, NEW e \in Poll, Thread(e)
    PROVE  DInv'
<1>1. /\ Types /\ e \in Actor /\ pc \in [Poll -> Places] /\ ev = [f \in Poll |-> ev[f]]
      /\ p \in [Poll -> Node \cup {Poison}] /\ fd_size \in [Poll -> Int]
      /\ mem \in Memory /\ ListHead \in Node /\ Block \subseteq Node
  BY DEF DInv, Types, Actor
<1>2. mem' = mem /\ used' = used /\ fd_of' = fd_of /\ op' = op /\ open' = open
  BY DEF Thread, Wait, Loop, EpollWait, EpollTimeout, EpollFails, NextEvent, BatchDone, ScanOn, ScanHit,
         CallbackReturns, Close, Quiet, kernel
<1>3. ~At(e, "unlink")
  <2>1. pc[e] # "call" => ~At(e, "unlink") BY <1>1 DEF DInv, UnlinkSafe
  <2>2. op[e] = Idle => ~At(e, "unlink") BY DEF At, Idle
  <2> QED BY <2>1, <2>2
          DEF Thread, Wait, Loop, EpollWait, EpollTimeout, EpollFails, NextEvent, BatchDone, ScanOn,
              ScanHit, CallbackReturns, Close
<1>4. CASE \/ Wait(e) \/ Loop(e) \/ EpollWait(e) \/ EpollTimeout(e) \/ EpollFails(e)
           \/ BatchDone(e)
  <2>1. fd_size' = fd_size /\ ev' = ev /\ p' = p
    BY <1>4 DEF Wait, Loop, EpollWait, EpollTimeout, EpollFails, BatchDone
  <2>2. \E l \in Places \ {"scan", "call"} : pc' = [pc EXCEPT ![e] = l]
    BY <1>4 DEF Wait, Loop, EpollWait, EpollTimeout, EpollFails, BatchDone, Goto, Places
  <2> QED BY <1>1, <1>2, <1>3, <2>1, <2>2, Moved
<1>5. CASE NextEvent(e)
  <2>1. /\ fd_size' = fd_size /\ pc' = [pc EXCEPT ![e] = "scan"]
        /\ p' = [p EXCEPT ![e] = mem.next[ListHead]]
        /\ \E fd \in batch[e] : ev' = [ev EXCEPT ![e] = fd]
    BY <1>5 DEF NextEvent, Goto
  <2>2. mem.next[ListHead] = ListHead
        \/ (mem.next[ListHead] \in Block /\ Listed(mem.next[ListHead]))
    BY NextListed
  <2> QED BY <1>1, <1>2, <1>3, <2>1, <2>2, Moved DEF Places
<1>6. CASE ScanOn(e)
  <2>1. fd_size' = fd_size /\ ev' = ev /\ pc[e] = "scan" BY <1>6 DEF ScanOn
  <2>2. p[e] = ListHead \/ (p[e] \in Block /\ Listed(p[e])) BY <2>1 DEF DInv, LoopOnList
  <2>3. CASE p[e] = ListHead /\ pc' = [pc EXCEPT ![e] = "batch"] /\ p' = p
    BY <1>1, <1>2, <1>3, <2>1, <2>3, Moved DEF Places
  <2>4. CASE p' = [p EXCEPT ![e] = mem.next[p[e]]] /\ pc' = pc
    <3>1. mem.next[p[e]] = ListHead \/ (mem.next[p[e]] \in Block /\ Listed(mem.next[p[e]]))
      BY <2>2, NextListed
    <3> QED BY <1>1, <1>2, <1>3, <2>1, <2>4, <3>1, Moved
  <2> QED BY <1>6, <2>3, <2>4 DEF ScanOn, Goto
<1>7. CASE ScanHit(e)
  <2>1. /\ fd_size' = fd_size /\ ev' = ev /\ p' = p /\ pc[e] = "scan"
        /\ pc' = [pc EXCEPT ![e] = "call"] /\ p[e] # ListHead /\ fd_of[p[e]] = ev[e]
    BY <1>7 DEF ScanHit, Goto
  <2>2. p[e] \in Block /\ Listed(p[e]) BY <2>1 DEF DInv, LoopOnList
  <2> QED BY <1>1, <1>2, <1>3, <2>1, <2>2, Moved DEF Places
<1>8. CASE CallbackReturns(e)
  <2>1. /\ fd_size' = fd_size /\ ev' = ev /\ p' = [p EXCEPT ![e] = mem.next[p[e]]]
        /\ pc' = [pc EXCEPT ![e] = "scan"] /\ pc[e] = "call"
    BY <1>8 DEF CallbackReturns, Goto
  <2>2. p[e] \in Block /\ Listed(p[e]) BY <2>1 DEF DInv, LoopOnList
  <2>3. mem.next[p[e]] = ListHead \/ (mem.next[p[e]] \in Block /\ Listed(mem.next[p[e]]))
    BY <2>2, NextListed
  <2> QED BY <1>1, <1>2, <1>3, <2>1, <2>3, Moved DEF Places
<1>9. CASE Close(e)
  <2>1. /\ fd_size' = [fd_size EXCEPT ![e] = 0] /\ ev' = ev /\ p' = p
        /\ pc' = [pc EXCEPT ![e] = "closed"]
    BY <1>9 DEF Close, Goto
  <2> QED BY <1>1, <1>2, <1>3, <2>1, Moved DEF Places
<1> QED BY <1>4, <1>5, <1>6, <1>7, <1>8, <1>9 DEF Thread

\* a step that leaves the list, the calls and the threads alone, and closes no
\* descriptor of a node
LEMMA FilesD ==
    ASSUME DInv, mem' = mem, used' = used, fd_of' = fd_of, op' = op, fd_size' = fd_size,
           pc' = pc, ev' = ev, p' = p,
           \A n \in used : fd_of[n] \in open => fd_of[n] \in open'
    PROVE  DInv'
<1>1. (\A n \in Block : Listed(n)' <=> Listed(n)) /\ RingHolds' /\ CallsApart'
  BY Unmoved
<1>2. Types' BY DEF DInv, Types
<1>3. UnlinkSafe' /\ LoopOnList'
  <2>1. \A b \in Actor : At(b, "unlink")' => At(b, "unlink") /\ op'[b].node = op[b].node
    BY DEF At
  <2> QED BY <1>1, <2>1, Kept
<1>4. FilesOpen' BY DEF DInv, FilesOpen, At
<1> QED BY <1>1, <1>2, <1>3, <1>4 DEF DInv

LEMMA StepD ==
    ASSUME OneLoop, DInv, [Next]_vars
    PROVE  DInv'
<1>1. ASSUME NEW a \in Actor, NEW e \in Poll, NEW fd \in Fd,
             RegisterBegin(a, e, fd) \/ UnregisterCtl(a, e, fd)
      PROVE  DInv'
  BY <1>1, RegisterBeginD, UnregisterCtlD
<1>2. ASSUME NEW a \in Actor, CallStep(a) PROVE DInv'
  BY <1>2, RegisterCtlD, RegisterFailsD, RegisterLinkD, UnregisterUnlinkD, CountD DEF CallStep
<1>3. ASSUME NEW e \in Poll, Thread(e) PROVE DInv' BY <1>3, ThreadD
<1>4. ASSUME NEW e \in Poll, event_poll_exit(e) PROVE DInv'
  BY <1>4, FilesD DEF event_poll_exit, kernel, thread
<1>5. ASSUME NEW fd \in Fd, Arrive(fd) \/ CloseFile(fd) \/ OpenFile(fd) PROVE DInv'
  <2>1. /\ mem' = mem /\ used' = used /\ fd_of' = fd_of /\ op' = op /\ fd_size' = fd_size
        /\ pc' = pc /\ ev' = ev /\ p' = p
    BY <1>5 DEF Arrive, CloseFile, OpenFile, Quiet, thread
  <2>2. \A n \in used : fd_of[n] \in open => fd_of[n] \in open'
    BY <1>5 DEF Arrive, CloseFile, OpenFile
  <2> QED BY <2>1, <2>2, FilesD
<1>6. CASE Crash BY <1>6, FilesD DEF Crash, RegisterWithoutMemory, kernel, thread
<1>7. CASE UNCHANGED vars BY <1>7, FilesD DEF vars, kernel, thread
<1> QED BY <1>1, <1>2, <1>3, <1>4, <1>5, <1>6, <1>7 DEF Next, Step

LEMMA DispatchFollows == DInv => DispatchSafe
<1> SUFFICES ASSUME DInv, NEW e \in Poll
             PROVE  /\ pc[e] = "scan" => p[e] \in used \cup {ListHead}
                    /\ pc[e] = "call" => p[e] \in used /\ ev[e] \in open
  BY DEF DispatchSafe
<1>1. pc[e] = "scan" => p[e] \in used \cup {ListHead} BY DEF DInv, LoopOnList, Listed
<1>2. ASSUME pc[e] = "call" PROVE p[e] \in used /\ ev[e] \in open
  <2>1. Listed(p[e]) /\ fd_of[p[e]] = ev[e] BY <1>2 DEF DInv, LoopOnList
  <2>2. p[e] \in used /\ \A a \in Actor : ~(At(a, "ctl") /\ op[a].node = p[e])
    BY <2>1 DEF Listed, Claimed, At
  <2> QED BY <2>1, <2>2 DEF DInv, FilesOpen
<1> QED BY <1>1, <1>2

(***************************************************************************)
(* When one event loop uses the list of nodes, its dispatch loop never     *)
(* stands on a freed node, and every callback it calls is that of an       *)
(* allocated node with an open descriptor: application threads may         *)
(* register at any moment, and callbacks register and unregister others.   *)
(***************************************************************************)
THEOREM DispatchIsSafe == OneLoop => (Spec => []DispatchSafe)
<1> SUFFICES ASSUME OneLoop PROVE Spec => []DispatchSafe OBVIOUS
<1>1. Init => DInv BY InitD
<1>2. DInv /\ [Next]_vars => DInv' BY StepD
<1>3. DInv => DispatchSafe BY DispatchFollows
<1> QED BY <1>1, <1>2, <1>3, PTL DEF Spec

-----------------------------------------------------------------------------
(* The books, when calls do not overlap.                                   *)

\* the nodes whose descriptor is in the epoll set
Watched == {n \in used : \A a \in Actor : op[a].stage \in {"ctl", "unlink"} => op[a].node # n}

\* what the open call has still to add to fd_size
Due(a) == IF At(a, "unlink") THEN 0 ELSE op[a].step

BookOf(e) ==
    /\ interest[e] = {fd_of[n] : n \in Watched}
    /\ \A m, n \in Watched : fd_of[m] = fd_of[n] => m = n
    /\ (\A a \in Actor : op[a] = Idle) => Cardinality(used) = fd_size[e]
    /\ \A a \in Actor : op[a] # Idle =>
          /\ Cardinality(used) = fd_size[e] + Due(a)
          /\ At(a, "store") => op[a].size = fd_size[e]
          /\ Claimed(a) => op[a].step = 1
          /\ At(a, "unlink") => op[a].step = -1

Books ==
    /\ owner \in [Block -> Poll \cup {Poison}] /\ \A n \in used : owner[n] \in Poll
    /\ interest = [e \in Poll |-> interest[e]]
    /\ \A e \in Poll : pc[e] # "closed" => BookOf(e)

LEMMA UsedFinite ==
    ASSUME DInv
    PROVE  IsFiniteSet(used) /\ Cardinality(used) \in Nat
<1>1. used \in SUBSET Node BY DEF DInv, Types
<1>2. IsFiniteSet(used) BY <1>1, FiniteAssumption, FS_Subset
<1> QED BY <1>2, FS_CardinalityType

LEMMA InitB == Init => Books
<1> SUFFICES ASSUME Init PROVE Books OBVIOUS
<1>1. owner \in [Block -> Poll \cup {Poison}] /\ used = {} BY DEF Init
<1>2. interest = [e \in Poll |-> interest[e]] BY DEF Init
<1>3. ASSUME NEW e \in Poll PROVE BookOf(e)
  <2>1. Watched = {} BY <1>1 DEF Watched
  <2>2. interest[e] = {} /\ fd_size[e] = 0 /\ \A a \in Actor : op[a] = Idle BY DEF Init
  <2>3. Cardinality(used) = 0 BY <1>1, FS_EmptySet
  <2> QED BY <2>1, <2>2, <2>3 DEF BookOf
<1> QED BY <1>1, <1>2, <1>3 DEF Books

\* only one call is open, so the others are idle
LEMMA OthersIdle ==
    ASSUME OneCall, NEW a \in Actor, op[a] # Idle
    PROVE  \A b \in Actor \ {a} : op[b] = Idle
BY DEF OneCall

LEMMA RegisterBeginB ==
    ASSUME DInv, Books, OneCall', NEW a \in Actor, NEW e \in Poll, NEW fd \in Fd,
           RegisterBegin(a, e, fd)
    PROVE  Books'
<1>1. Types /\ op \in [Actor -> Call \cup {Idle}] /\ op[a] = Idle
  BY DEF DInv, Types, RegisterBegin, BeginCall
<1>2. PICK n \in Block \ used :
        /\ used' = used \cup {n} /\ fd_of' = [fd_of EXCEPT ![n] = fd]
        /\ owner' = [owner EXCEPT ![n] = e]
        /\ op' = [op EXCEPT ![a] = [stage |-> "ctl", ep |-> e, node |-> n,
                                    step |-> 1, size |-> 0]]
  BY DEF RegisterBegin
<1>3. PICK c : c = [stage |-> "ctl", ep |-> e, node |-> n, step |-> 1, size |-> 0] OBVIOUS
<1>4. c # Idle /\ c.stage = "ctl" /\ c.node = n /\ c.step = 1 BY <1>3 DEF Idle
<1>5. op'[a] = c /\ \A b \in Actor \ {a} : op'[b] = op[b] BY <1>1, <1>2, <1>3
<1>6. \A b \in Actor : op[b] = Idle BY <1>1, <1>4, <1>5 DEF OneCall
<1>7. fd_size' = fd_size /\ pc' = pc /\ interest' = interest BY DEF RegisterBegin, kernel, thread
<1>8. owner' \in [Block -> Poll \cup {Poison}] /\ \A m \in used' : owner'[m] \in Poll
  BY <1>2 DEF Books
<1>9. ASSUME NEW f \in Poll, pc[f] # "closed" PROVE BookOf(f)'
  <2>1. BookOf(f) BY <1>9 DEF Books
  <2>2. Watched = used BY <1>6 DEF Watched, Idle
  <2>3. Watched' = used BY <1>2, <1>4, <1>5, <1>6 DEF Watched, Idle
  <2>4. \A m \in used : fd_of'[m] = fd_of[m] BY <1>1, <1>2 DEF Types
  <2>5. Cardinality(used') = Cardinality(used) + 1 BY <1>2, UsedFinite, FS_AddElement
  <2>6. Cardinality(used) = fd_size[f] BY <1>6, <2>1 DEF BookOf
  <2>7. interest'[f] = {fd_of'[m] : m \in Watched'}
        /\ \A m, k \in Watched' : fd_of'[m] = fd_of'[k] => m = k
    BY <1>7, <2>1, <2>2, <2>3, <2>4 DEF BookOf
  <2>8. \A b \in Actor : op'[b] # Idle => b = a BY <1>5, <1>6
  <2>9. Due(a)' = 1 /\ ~At(a, "store")' /\ ~At(a, "unlink")' /\ op'[a].step = 1 /\ op'[a] # Idle
    BY <1>4, <1>5 DEF Due, At
  <2> QED BY <1>7, <2>5, <2>6, <2>7, <2>8, <2>9 DEF BookOf
<1> QED BY <1>7, <1>8, <1>9 DEF Books

\* an open call, and what it leaves to the book of the loop f
LEMMA OpenCall ==
    ASSUME OneLoop, DInv, Books, OneCall, NEW a \in Actor, op[a].stage \in Stages,
           NEW f \in Poll, pc[f] # "closed"
    PROVE  /\ op[a] \in Call /\ op[a] # Idle /\ op[a].ep = f
           /\ \A b \in Actor \ {a} : op[b] = Idle
           /\ interest[f] = {fd_of[n] : n \in Watched}
           /\ \A m, n \in Watched : fd_of[m] = fd_of[n] => m = n
           /\ Cardinality(used) = fd_size[f] + Due(a)
           /\ At(a, "store") => op[a].size = fd_size[f]
           /\ Claimed(a) => op[a].step = 1
           /\ At(a, "unlink") => op[a].step = -1
<1>1. op[a] \in Call /\ op[a].ep \in Poll BY Open DEF DInv, Types
<1>2. op[a] # Idle BY DEF Idle, Stages
<1>3. BookOf(f) BY DEF Books
<1> QED BY <1>1, <1>2, <1>3, OthersIdle DEF OneLoop, BookOf

LEMMA RegisterCtlB ==
    ASSUME OneLoop, DInv, Books, OneCall, NEW a \in Actor, RegisterCtl(a)
    PROVE  Books'
<1> DEFINE n == op[a].node
<1>1. /\ op \in [Actor -> Call \cup {Idle}] /\ op[a].stage = "ctl" /\ Proceed(a, "link")
      /\ fd_of[n] \notin interest[op[a].ep]
      /\ interest' = [interest EXCEPT ![op[a].ep] = @ \cup {fd_of[n]}]
  BY DEF DInv, Types, RegisterCtl, At, Refused
<1>2. op[a] \in Call /\ n \in used BY <1>1, Open DEF DInv, CallsApart, Claimed, Stages
<1>3. /\ op'[a].stage = "link" /\ op'[a].step = op[a].step /\ op'[a].node = n
      /\ \A b \in Actor \ {a} : op'[b] = op[b]
  BY <1>1, <1>2, Proceeds DEF Stages
<1>4. used' = used /\ fd_of' = fd_of /\ fd_size' = fd_size /\ pc' = pc /\ owner' = owner
  BY DEF RegisterCtl, thread
<1>5. interest' = [e \in Poll |-> interest'[e]] BY <1>1 DEF Books
<1>6. ASSUME NEW f \in Poll, pc[f] # "closed" PROVE BookOf(f)'
  <2>1. /\ op[a].ep = f /\ \A b \in Actor \ {a} : op[b] = Idle
        /\ interest[f] = {fd_of[m] : m \in Watched}
        /\ \A m, k \in Watched : fd_of[m] = fd_of[k] => m = k
        /\ Cardinality(used) = fd_size[f] + Due(a) /\ op[a].step = 1
    BY <1>1, <1>6, OpenCall DEF Stages, Claimed
  <2>2. \A b \in Actor \ {a} : op[b].stage = "idle" /\ op'[b] = Idle BY <1>3, <2>1 DEF Idle
  <2>3. Watched = used \ {n} BY <1>1, <2>2 DEF Watched
  <2>4. Watched' = used BY <1>3, <1>4, <2>2 DEF Watched, Idle
  <2>5. interest'[f] = interest[f] \cup {fd_of[n]} BY <1>1, <2>1 DEF Books
  <2>6. fd_of[n] \notin {fd_of[m] : m \in used \ {n}} BY <1>1, <2>1, <2>3
  <2> HIDE DEF n
  <2>7. interest'[f] = {fd_of'[m] : m \in Watched'} BY <1>2, <1>4, <2>1, <2>3, <2>4, <2>5
  <2>8. \A m, k \in Watched' : fd_of'[m] = fd_of'[k] => m = k
    BY <1>4, <2>1, <2>3, <2>4, <2>6
  <2>9. Due(a) = 1 /\ Due(a)' = 1 /\ ~At(a, "store")' /\ ~At(a, "unlink")' /\ op'[a] # Idle
    BY <1>1, <1>3, <2>1 DEF Due, At, Idle
  <2> QED BY <1>3, <1>4, <2>1, <2>2, <2>7, <2>8, <2>9 DEF BookOf
<1> QED BY <1>4, <1>5, <1>6 DEF Books

LEMMA RegisterFailsB ==
    ASSUME OneLoop, DInv, Books, OneCall, NEW a \in Actor, RegisterFails(a)
    PROVE  Books'
<1> DEFINE n == op[a].node
<1>1. /\ op \in [Actor -> Call \cup {Idle}] /\ op[a].stage = "ctl" /\ Return(a)
      /\ used' = used \ {n}
  BY DEF DInv, Types, RegisterFails, At
<1>2. op[a] \in Call /\ n \in used BY <1>1, Open DEF DInv, CallsApart, Claimed, Stages
<1>3. op'[a] = Idle /\ \A b \in Actor \ {a} : op'[b] = op[b] BY <1>1, Returns
<1>4. /\ fd_of' = fd_of /\ fd_size' = fd_size /\ pc' = pc /\ owner' = owner
      /\ interest' = interest
  BY DEF RegisterFails, thread, kernel
<1>5. ASSUME NEW f \in Poll, pc[f] # "closed" PROVE BookOf(f)'
  <2>1. /\ \A b \in Actor \ {a} : op[b] = Idle
        /\ interest[f] = {fd_of[m] : m \in Watched}
        /\ \A m, k \in Watched : fd_of[m] = fd_of[k] => m = k
        /\ Cardinality(used) = fd_size[f] + Due(a) /\ op[a].step = 1
    BY <1>1, <1>5, OpenCall DEF Stages, Claimed
  <2>2. \A b \in Actor \ {a} : op[b].stage = "idle" BY <2>1 DEF Idle
  <2>3. \A b \in Actor : op'[b] = Idle BY <1>3, <2>1
  <2>4. Watched = used \ {n} BY <1>1, <2>2 DEF Watched
  <2>5. Watched' = used \ {n} BY <1>1, <2>3 DEF Watched, Idle
  <2>6. Cardinality(used') = Cardinality(used) - 1 BY <1>1, <1>2, UsedFinite, FS_RemoveElement
  <2>7. Due(a) = 1 BY <1>1, <2>1 DEF Due, At
  <2>8. fd_size[f] \in Int BY DEF DInv, Types
  <2>9. Cardinality(used') = fd_size[f]
    <3>1. Cardinality(used) \in Nat BY UsedFinite
    <3> HIDE DEF n
    <3> QED BY <2>1, <2>6, <2>7, <2>8, <3>1
  <2> QED BY <1>4, <2>1, <2>3, <2>4, <2>5, <2>9 DEF BookOf
<1> QED BY <1>1, <1>4, <1>5 DEF Books

LEMMA RegisterLinkB ==
    ASSUME OneLoop, DInv, Books, OneCall, NEW a \in Actor, RegisterLink(a)
    PROVE  Books'
<1>1. op \in [Actor -> Call \cup {Idle}] /\ op[a].stage = "link" /\ Proceed(a, "count")
  BY DEF DInv, Types, RegisterLink, At
<1>2. op[a] \in Call BY <1>1, Open DEF Stages
<1>3. /\ op'[a].stage = "count" /\ op'[a].step = op[a].step
      /\ \A b \in Actor \ {a} : op'[b] = op[b]
  BY <1>1, <1>2, Proceeds DEF Stages
<1>4. /\ used' = used /\ fd_of' = fd_of /\ fd_size' = fd_size /\ pc' = pc /\ owner' = owner
      /\ interest' = interest
  BY DEF RegisterLink, thread, kernel
<1>5. ASSUME NEW f \in Poll, pc[f] # "closed" PROVE BookOf(f)'
  <2>1. /\ \A b \in Actor \ {a} : op[b] = Idle
        /\ interest[f] = {fd_of[m] : m \in Watched}
        /\ \A m, k \in Watched : fd_of[m] = fd_of[k] => m = k
        /\ Cardinality(used) = fd_size[f] + Due(a) /\ op[a].step = 1
    BY <1>1, <1>5, OpenCall DEF Stages, Claimed
  <2>2. \A b \in Actor \ {a} : op'[b] = Idle BY <1>3, <2>1
  <2>3. Watched' = Watched BY <1>1, <1>3, <1>4 DEF Watched
  <2>4. /\ Due(a) = 1 /\ Due(a)' = 1 /\ ~At(a, "store")' /\ ~At(a, "unlink")'
        /\ op'[a] # Idle /\ op'[a].step = 1
    BY <1>1, <1>3, <2>1 DEF Due, At, Idle
  <2> QED BY <1>4, <2>1, <2>2, <2>3, <2>4 DEF BookOf
<1> QED BY <1>4, <1>5 DEF Books

LEMMA UnregisterCtlB ==
    ASSUME OneLoop, DInv, Books, OneCall', NEW a \in Actor, NEW e \in Poll, NEW fd \in Fd,
           UnregisterCtl(a, e, fd)
    PROVE  Books'
<1>1. op \in [Actor -> Call \cup {Idle}] /\ op[a] = Idle BY OwnLoop DEF DInv, Types
<1>2. PICK n \in Found(fd) :
        op' = [op EXCEPT ![a] = [stage |-> "unlink", ep |-> e, node |-> n, step |-> -1, size |-> 0]]
  BY DEF UnregisterCtl
<1>3. n \in used /\ fd_of[n] = fd BY FoundListed DEF Listed
<1>4. PICK c : c = [stage |-> "unlink", ep |-> e, node |-> n, step |-> -1, size |-> 0] OBVIOUS
<1>5. c # Idle /\ c.stage = "unlink" /\ c.node = n /\ c.step = -1 BY <1>4 DEF Idle
<1>6. op'[a] = c /\ \A b \in Actor \ {a} : op'[b] = op[b] BY <1>1, <1>2, <1>4
<1>7. \A b \in Actor : op[b] = Idle BY <1>1, <1>5, <1>6 DEF OneCall
<1>8. /\ used' = used /\ fd_of' = fd_of /\ fd_size' = fd_size /\ pc' = pc /\ owner' = owner
      /\ interest' = [interest EXCEPT ![e] = @ \ {fd}]
  BY DEF UnregisterCtl, thread
<1>9. interest' = [f \in Poll |-> interest'[f]] BY <1>8 DEF Books
<1>10. ASSUME NEW f \in Poll, pc[f] # "closed" PROVE BookOf(f)'
  <2>1. BookOf(f) /\ f = e BY <1>10 DEF Books, OneLoop
  <2>2. Watched = used BY <1>7 DEF Watched, Idle
  <2>3. Watched' = used \ {n} BY <1>5, <1>6, <1>7, <1>8 DEF Watched, Idle
  <2>4. interest'[f] = interest[f] \ {fd} BY <1>8, <2>1 DEF Books
  <2>5. interest[f] = {fd_of[m] : m \in used}
        /\ \A m, k \in used : fd_of[m] = fd_of[k] => m = k
    BY <2>1, <2>2 DEF BookOf
  <2>6. interest'[f] = {fd_of'[m] : m \in Watched'}
        /\ \A m, k \in Watched' : fd_of'[m] = fd_of'[k] => m = k
    BY <1>3, <1>8, <2>3, <2>4, <2>5
  <2>7. Cardinality(used) = fd_size[f] BY <1>7, <2>1 DEF BookOf
  <2>8. \A b \in Actor : op'[b] # Idle => b = a BY <1>6, <1>7
  <2>9. /\ Due(a)' = 0 /\ ~At(a, "store")' /\ ~Claimed(a)' /\ op'[a].step = -1 /\ op'[a] # Idle
    BY <1>5, <1>6 DEF Due, At, Claimed
  <2>10. fd_size[f] \in Int BY DEF DInv, Types
  <2> QED BY <1>8, <2>6, <2>7, <2>8, <2>9, <2>10 DEF BookOf
<1> QED BY <1>8, <1>9, <1>10 DEF Books

LEMMA UnregisterUnlinkB ==
    ASSUME OneLoop, DInv, Books, OneCall, NEW a \in Actor, UnregisterUnlink(a)
    PROVE  Books'
<1> DEFINE n == op[a].node
<1>1. /\ op \in [Actor -> Call \cup {Idle}] /\ op[a].stage = "unlink" /\ At(a, "unlink")
      /\ Proceed(a, "count") /\ used' = used \ {n}
  BY DEF DInv, Types, UnregisterUnlink, At
<1>2. op[a] \in Call /\ n \in used BY <1>1, Open DEF DInv, UnlinkSafe, Listed, Stages
<1>3. /\ op'[a].stage = "count" /\ op'[a].step = op[a].step
      /\ \A b \in Actor \ {a} : op'[b] = op[b]
  BY <1>1, <1>2, Proceeds DEF Stages
<1>4. /\ fd_of' = fd_of /\ fd_size' = fd_size /\ pc' = pc /\ owner' = owner
      /\ interest' = interest
  BY DEF UnregisterUnlink, thread, kernel
<1>5. ASSUME NEW f \in Poll, pc[f] # "closed" PROVE BookOf(f)'
  <2>1. /\ \A b \in Actor \ {a} : op[b] = Idle
        /\ interest[f] = {fd_of[m] : m \in Watched}
        /\ \A m, k \in Watched : fd_of[m] = fd_of[k] => m = k
        /\ Cardinality(used) = fd_size[f] + Due(a) /\ op[a].step = -1
    BY <1>1, <1>5, OpenCall DEF Stages
  <2>2. \A b \in Actor \ {a} : op[b].stage = "idle" /\ op'[b] = Idle BY <1>3, <2>1 DEF Idle
  <2>3. Watched = used \ {n} BY <1>1, <2>2 DEF Watched
  <2>4. Watched' = used \ {n} BY <1>1, <1>3, <2>2 DEF Watched, Idle
  <2>5. Cardinality(used') = Cardinality(used) - 1 BY <1>1, <1>2, UsedFinite, FS_RemoveElement
  <2>6. /\ Due(a) = 0 /\ Due(a)' = -1 /\ ~At(a, "store")' /\ ~Claimed(a)'
        /\ op'[a] # Idle /\ op'[a].step = -1
    BY <1>1, <1>3, <2>1 DEF Due, At, Idle, Claimed
  <2>7. Cardinality(used') = fd_size[f] + Due(a)'
    <3>1. Cardinality(used) \in Nat /\ fd_size[f] \in Int BY UsedFinite DEF DInv, Types
    <3> HIDE DEF n
    <3> QED BY <2>1, <2>5, <2>6, <3>1
  <2> QED BY <1>4, <2>1, <2>2, <2>3, <2>4, <2>6, <2>7 DEF BookOf
<1> QED BY <1>1, <1>4, <1>5 DEF Books

LEMMA CountB ==
    ASSUME OneLoop, DInv, Books, OneCall, NEW a \in Actor, CountRead(a) \/ CountWrite(a)
    PROVE  Books'
<1>1. /\ op \in [Actor -> Call \cup {Idle}] /\ op[a].stage \in {"count", "store"}
      /\ fd_size \in [Poll -> Int]
  BY DEF DInv, Types, CountRead, CountWrite, At
<1>2. op[a] \in Call /\ op[a].ep \in Poll BY <1>1, Open DEF Stages
<1>3. /\ used' = used /\ fd_of' = fd_of /\ pc' = pc /\ owner' = owner /\ interest' = interest
  BY DEF CountRead, CountWrite, thread, kernel
<1>4. ASSUME NEW f \in Poll, pc[f] # "closed" PROVE BookOf(f)'
  <2>1. /\ op[a].ep = f /\ \A b \in Actor \ {a} : op[b] = Idle
        /\ interest[f] = {fd_of[m] : m \in Watched}
        /\ \A m, k \in Watched : fd_of[m] = fd_of[k] => m = k
        /\ Cardinality(used) = fd_size[f] + Due(a)
        /\ At(a, "store") => op[a].size = fd_size[f]
    BY <1>1, <1>4, OpenCall DEF Stages
  <2>2. Due(a) = op[a].step BY <1>1 DEF Due, At
  <2>3. CASE CountRead(a)
    <3>1. PICK c : c = [op[a] EXCEPT !.stage = "store", !.size = fd_size[op[a].ep]] OBVIOUS
    <3>2. /\ c.stage = "store" /\ c.size = fd_size[f] /\ c.step = op[a].step
          /\ c # Idle
      BY <1>2, <2>1, <3>1 DEF Call, Idle
    <3>3. op' = [op EXCEPT ![a] = c]
      <4>1. op' = [op EXCEPT ![a].stage = "store", ![a].size = fd_size[op[a].ep]]
        BY <2>3 DEF CountRead
      <4> QED BY <1>1, <3>1, <4>1
    <3>4. op'[a] = c /\ \A b \in Actor \ {a} : op'[b] = Idle BY <1>1, <2>1, <3>3
    <3>5. fd_size' = fd_size BY <2>3 DEF CountRead
    <3>6. Watched' = Watched BY <1>1, <1>3, <2>1, <3>2, <3>4 DEF Watched, Idle
    <3>7. ~Claimed(a)' /\ ~At(a, "unlink")' /\ Due(a)' = op[a].step
      BY <3>2, <3>4 DEF Claimed, At, Due
    <3> QED BY <1>3, <2>1, <2>2, <3>2, <3>4, <3>5, <3>6, <3>7 DEF BookOf
  <2>4. CASE CountWrite(a)
    <3>1. /\ fd_size' = [fd_size EXCEPT ![op[a].ep] = op[a].size + op[a].step]
          /\ Return(a) /\ At(a, "store")
      BY <2>4 DEF CountWrite
    <3>2. op'[a] = Idle /\ \A b \in Actor \ {a} : op'[b] = op[b] BY <1>1, <3>1, Returns
    <3>3. \A b \in Actor : op'[b] = Idle BY <2>1, <3>2
    <3>4. fd_size'[f] = fd_size[f] + op[a].step BY <1>1, <2>1, <3>1
    <3>5. Watched' = Watched BY <1>1, <1>3, <2>1, <3>3 DEF Watched, Idle
    <3> QED BY <1>3, <2>1, <2>2, <3>3, <3>4, <3>5 DEF BookOf
  <2> QED BY <2>3, <2>4
<1> QED BY <1>3, <1>4 DEF Books

\* a step that moves no node and no call, and books nothing
LEMMA Unbooked ==
    ASSUME Books, used' = used, fd_of' = fd_of, owner' = owner, op' = op,
           interest' = interest, fd_size' = fd_size,
           \A f \in Poll : pc'[f] # "closed" => pc[f] # "closed"
    PROVE  Books'
<1>1. Watched' = Watched BY DEF Watched
<1>2. \A a \in Actor : Due(a)' = Due(a) BY DEF Due, At
<1>3. ASSUME NEW f \in Poll, BookOf(f) PROVE BookOf(f)'
  BY <1>1, <1>2, <1>3 DEF BookOf, At, Claimed
<1> QED BY <1>3 DEF Books

LEMMA ThreadB ==
    ASSUME OneLoop, DInv, Books, NEW e \in Poll, Thread(e)
    PROVE  Books'
<1>1. used' = used /\ fd_of' = fd_of /\ owner' = owner /\ op' = op
  BY DEF Thread, Wait, Loop, EpollWait, EpollTimeout, EpollFails, NextEvent, BatchDone, ScanOn, ScanHit,
         CallbackReturns, Close, Quiet
<1>2. pc \in [Poll -> Places] BY DEF DInv, Types
<1>3. CASE Close(e)
  <2>1. pc' = [pc EXCEPT ![e] = "closed"] /\ interest' = [interest EXCEPT ![e] = {}]
    BY <1>3 DEF Close, Goto
  <2>2. \A f \in Poll : pc'[f] = "closed" BY <1>2, <2>1 DEF OneLoop
  <2>3. interest' = [f \in Poll |-> interest'[f]] BY <2>1 DEF Books
  <2> QED BY <1>1, <2>2, <2>3 DEF Books
<1>4. CASE ~Close(e)
  <2>1. interest' = interest /\ fd_size' = fd_size
    BY <1>4 DEF Thread, Wait, Loop, EpollWait, EpollTimeout, EpollFails, NextEvent, BatchDone, ScanOn,
                ScanHit, CallbackReturns, kernel
  <2>2. pc[e] # "closed" /\ (pc' = pc \/ \E l : pc' = [pc EXCEPT ![e] = l])
    BY <1>4 DEF Thread, Wait, Loop, EpollWait, EpollTimeout, EpollFails, NextEvent, BatchDone, ScanOn,
                ScanHit, CallbackReturns, Goto
  <2>3. \A f \in Poll : pc'[f] # "closed" => pc[f] # "closed" BY <2>2 DEF OneLoop
  <2> QED BY <1>1, <2>1, <2>3, Unbooked
<1> QED BY <1>3, <1>4

LEMMA StepB ==
    ASSUME OneLoop, DInv, Books, OneCall, OneCall', [Next]_vars
    PROVE  Books'
<1>1. ASSUME NEW a \in Actor, NEW e \in Poll, NEW fd \in Fd,
             RegisterBegin(a, e, fd) \/ UnregisterCtl(a, e, fd)
      PROVE  Books'
  BY <1>1, RegisterBeginB, UnregisterCtlB
<1>2. ASSUME NEW a \in Actor, CallStep(a) PROVE Books'
  BY <1>2, RegisterCtlB, RegisterFailsB, RegisterLinkB, UnregisterUnlinkB, CountB DEF CallStep
<1>3. ASSUME NEW e \in Poll, Thread(e) PROVE Books' BY <1>3, ThreadB
<1>4. ASSUME NEW e \in Poll, event_poll_exit(e) PROVE Books'
  BY <1>4, Unbooked DEF event_poll_exit, kernel, thread
<1>5. ASSUME NEW fd \in Fd, Arrive(fd) \/ CloseFile(fd) \/ OpenFile(fd) PROVE Books'
  BY <1>5, Unbooked DEF Arrive, CloseFile, OpenFile, Quiet, thread
<1>6. CASE Crash BY <1>6, Unbooked DEF Crash, RegisterWithoutMemory, kernel, thread
<1>7. CASE UNCHANGED vars BY <1>7, Unbooked DEF vars, kernel, thread
<1> QED BY <1>1, <1>2, <1>3, <1>4, <1>5, <1>6, <1>7 DEF Next, Step

LEMMA BooksFollow ==
    ASSUME OneLoop, DInv, Books
    PROVE  BooksAgree
<1> DEFINE walk == list_for_each(mem, ListHead)
           listed == {walk[i] : i \in DOMAIN walk}
<1> SUFFICES ASSUME \A a \in Actor : op[a] = Idle
             PROVE  /\ listed = used
                    /\ \A e \in Poll : pc[e] # "closed" =>
                          LET nodes == {n \in used : owner[n] = e}
                          IN  /\ fd_size[e] = Cardinality(nodes)
                              /\ fd_size[e] = Cardinality(interest[e])
                              /\ interest[e] = {fd_of[n] : n \in nodes}
  BY DEF BooksAgree
<1>1. \A n : Listed(n) <=> n \in used BY DEF Listed, Claimed, Idle
<1>2. listed = used
  <2>1. PICK s \in Seq(Block) : /\ IsList(mem, ListHead, s)
                                /\ \A n \in Block : In(n, s) <=> Listed(n)
    BY DEF DInv, RingHolds
  <2>2. walk = s /\ DOMAIN s = 1 .. Len(s) BY <2>1, ForEachMeets
  <2>3. \A i \in DOMAIN s : s[i] \in Block BY <2>1
  <2>4. listed = {s[i] : i \in 1 .. Len(s)} BY <2>2
  <2>5. used \subseteq Block BY DEF DInv, Types
  <2> HIDE DEF listed, walk
  <2> QED BY <1>1, <2>1, <2>2, <2>3, <2>4, <2>5 DEF In
<1>3. ASSUME NEW e \in Poll, pc[e] # "closed"
      PROVE  LET nodes == {n \in used : owner[n] = e}
             IN  /\ fd_size[e] = Cardinality(nodes)
                 /\ fd_size[e] = Cardinality(interest[e])
                 /\ interest[e] = {fd_of[n] : n \in nodes}
  <2>1. {n \in used : owner[n] = e} = used BY DEF Books, OneLoop
  <2>2. Watched = used BY DEF Watched, Idle
  <2>3. BookOf(e) BY <1>3 DEF Books
  <2>4. /\ Cardinality(used) = fd_size[e] /\ interest[e] = {fd_of[n] : n \in used}
        /\ \A m, n \in used : fd_of[m] = fd_of[n] => m = n
    BY <2>2, <2>3 DEF BookOf
  <2>5. Cardinality(interest[e]) = Cardinality(used)
    <3> DEFINE f == [n \in used |-> fd_of[n]]
    <3>1. PICK T : T = interest[e] OBVIOUS
    <3>2. /\ T = {fd_of[n] : n \in used}
          /\ \A m, n \in used : fd_of[m] = fd_of[n] => m = n
      BY <2>4, <3>1
    <3>3. f \in [used -> T] /\ \A n \in used : f[n] = fd_of[n] BY <3>2
    <3> HIDE DEF f
    <3>4. \A m, n \in used : f[m] = f[n] => m = n BY <3>2, <3>3
    <3>5. \A t \in T : \E n \in used : f[n] = t BY <3>2, <3>3
    <3>6. f \in Bijection(used, T)
      BY <3>3, <3>4, <3>5 DEF Bijection, Injection, Surjection, IsInjective
    <3> QED BY <3>1, <3>6, UsedFinite, FS_Bijection DEF ExistsBijection
  <2> QED BY <2>1, <2>4, <2>5
<1> QED BY <1>2, <1>3

(***************************************************************************)
(* When one event loop uses the list of nodes and no two calls of          *)
(* event_register and event_unregister are open at once, the list, fd_size *)
(* and the epoll set of the loop agree between calls, whichever of their   *)
(* steps fail.                                                             *)
(***************************************************************************)
THEOREM BooksAlwaysAgree == OneLoop => (Spec /\ []OneCall => []BooksAgree)
<1> SUFFICES ASSUME OneLoop PROVE Spec /\ []OneCall => []BooksAgree OBVIOUS
<1>1. Init => DInv /\ Books BY InitD, InitB
<1>2. DInv /\ Books /\ OneCall /\ OneCall' /\ [Next]_vars => DInv' /\ Books' BY StepD, StepB
<1>3. DInv /\ Books => BooksAgree BY BooksFollow
<1> QED BY <1>1, <1>2, <1>3, PTL DEF Spec
=============================================================================
