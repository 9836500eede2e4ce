------------------------------ MODULE EventPoll ------------------------------
(***************************************************************************)
(* The event loop of src/epoll_event.c.  Each event_poll_t has an epoll    *)
(* descriptor, a thread that waits on it and a counter fd_size; the nodes  *)
(* that hold the callbacks are in one list shared by all of them, and no   *)
(* lock protects either.  event_register and event_unregister are split at *)
(* the accesses that another thread can see: the epoll_ctl, the list       *)
(* operation, the read of fd_size and its write.  They are called by       *)
(* application threads and by callbacks, on the thread that dispatches.    *)
(* The behaviours start when event_poll_init has returned.                 *)
(***************************************************************************)
EXTENDS LinkedList

CONSTANTS
    Block,          \* the event_node_t blocks that malloc can return
    ListHead,       \* &event_node_list
    Fd,             \* file descriptors
    Poll,           \* the event_poll_t instances, and their threads
    App,            \* the application threads
    MAX_EPOLL_SIZE,
    MaxAppCalls,    \* bound on the calls made by application threads
    MaxCallbackCalls  \* bound on the calls made by callbacks

ASSUME NodeAssumption == Node = Block \cup {ListHead} /\ ListHead \notin Block
ASSUME ActorAssumption == Poll \cap App = {}
ASSUME BoundAssumption ==
    MAX_EPOLL_SIZE \in Nat /\ MaxAppCalls \in Nat /\ MaxCallbackCalls \in Nat

VARIABLES
    mem,        \* the list words of the nodes and of event_node_list
    used,       \* the allocated nodes
    fd_of,      \* node->fd, and the descriptor in its event
    owner,      \* auxiliary: the event_poll_t each node was registered with
    fd_size,    \* et->fd_size
    exit,       \* et->exit
    interest,   \* kernel: the descriptors in each epoll set, while it is open
    open,       \* kernel: the open descriptors
    ready,      \* kernel: the readable descriptors
    pc,         \* where each poll thread is
    batch,      \* the events of epoll_wait not dispatched yet
    ev, p,      \* events[i].data.fd and the cursor of the dispatch loop
    op,         \* the call in progress on each thread
    calls,      \* calls begun so far, by kind of caller
    alive       \* the process runs

kernel == <<interest, open, ready>>
thread == <<pc, batch, ev, p>>
vars == <<mem, used, fd_of, owner, fd_size, exit, kernel, thread, op, calls, alive>>

Actor == Poll \cup App

Idle == [stage |-> "idle"]

Stages == {"ctl", "link", "unlink", "count", "store"}

TypeOK ==
    /\ mem \in Memory
    /\ used \subseteq Block
    /\ fd_of \in [Block -> Fd \cup {Poison}]
    /\ owner \in [Block -> Poll \cup {Poison}]
    /\ fd_size \in [Poll -> 0 .. MAX_EPOLL_SIZE]
    /\ exit \in [Poll -> BOOLEAN]
    /\ interest \in [Poll -> SUBSET Fd]
    /\ ready \subseteq open /\ open \subseteq Fd
    /\ pc \in [Poll -> {"wait", "loop", "poll", "batch", "scan", "call",
                        "close", "closed"}]
    /\ batch \in [Poll -> SUBSET Fd]
    /\ ev \in [Poll -> Fd \cup {Poison}]
    /\ p \in [Poll -> Node \cup {Poison}]
    /\ \A a \in Actor :
          \/ op[a] = Idle
          \/ /\ op[a].stage \in Stages /\ op[a].ep \in Poll
             /\ op[a].node \in Block /\ op[a].step \in {-1, 1}
             /\ op[a].size \in 0 .. MAX_EPOLL_SIZE
    /\ alive \in BOOLEAN

Init ==
    /\ mem = [next |-> [n \in Node |-> IF n = ListHead THEN ListHead ELSE Poison],
              prev |-> [n \in Node |-> IF n = ListHead THEN ListHead ELSE Poison]]
    /\ used = {}
    /\ fd_of = [n \in Block |-> Poison]
    /\ owner = [n \in Block |-> Poison]
    /\ fd_size = [e \in Poll |-> 0]
    /\ exit = [e \in Poll |-> FALSE]
    /\ interest = [e \in Poll |-> {}]
    /\ open = Fd /\ ready = {}
    /\ pc = [e \in Poll |-> "wait"]
    /\ batch = [e \in Poll |-> {}]
    /\ ev = [e \in Poll |-> Poison]
    /\ p = [e \in Poll |-> ListHead]
    /\ op = [a \in Actor |-> Idle]
    /\ calls = [app |-> 0, callback |-> 0]
    /\ alive = TRUE

-----------------------------------------------------------------------------
(* Who may call: an application thread between its calls, and a callback,  *)
(* on the thread that runs it and with that thread's event_poll_t.         *)

BeginCall(a, e) ==
    /\ op[a] = Idle
    /\ \/ a \in App /\ calls.app < MaxAppCalls
          /\ calls' = [calls EXCEPT !.app = @ + 1]
       \/ a = e /\ pc[a] = "call" /\ calls.callback < MaxCallbackCalls
          /\ calls' = [calls EXCEPT !.callback = @ + 1]

At(a, stage) == op[a].stage = stage

Proceed(a, stage) == op' = [op EXCEPT ![a].stage = stage]

Return(a) == op' = [op EXCEPT ![a] = Idle]

(* event_register *)

RegisterBegin(a, e, fd) ==
    /\ BeginCall(a, e)
    /\ fd_size[e] < MAX_EPOLL_SIZE
    /\ \E n \in Block \ used :
          /\ used' = used \cup {n}
          /\ fd_of' = [fd_of EXCEPT ![n] = fd]
          /\ owner' = [owner EXCEPT ![n] = e]
          /\ op' = [op EXCEPT ![a] = [stage |-> "ctl", ep |-> e, node |-> n,
                                      step |-> 1, size |-> 0]]
    /\ UNCHANGED <<mem, fd_size, exit, kernel, thread>>

\* security_zerolloc clears the block before it looks at it: without memory the
\* process ends there, and event_register's test of the result is never reached
RegisterWithoutMemory(a, e) ==
    /\ BeginCall(a, e)
    /\ fd_size[e] < MAX_EPOLL_SIZE
    /\ alive' = FALSE
    /\ UNCHANGED <<mem, used, fd_of, owner, fd_size, exit, kernel, thread, op>>

\* epoll_event_fd_set: the descriptor is closed, is in the set already, or the
\* epoll descriptor was closed by its thread
Refused(e, fd) == fd \notin open \/ fd \in interest[e] \/ pc[e] = "closed"

RegisterCtl(a) ==
    LET e == op[a].ep
        n == op[a].node
    IN  /\ At(a, "ctl")
        /\ ~Refused(e, fd_of[n])
        /\ interest' = [interest EXCEPT ![e] = @ \cup {fd_of[n]}]
        /\ Proceed(a, "link")
        /\ UNCHANGED <<mem, used, fd_of, owner, fd_size, exit, open, ready,
                       thread, calls>>

\* mutant: the node is not freed when epoll_ctl fails
RegisterFails_NoFree(a) ==
    /\ At(a, "ctl")
    /\ Return(a)
    /\ UNCHANGED <<mem, used, fd_of, owner, fd_size, exit, kernel, thread, calls>>

\* fcntl or epoll_ctl fails, for one of these reasons or for want of memory
RegisterFails(a) ==
    /\ At(a, "ctl")
    /\ used' = used \ {op[a].node}
    /\ Return(a)
    /\ UNCHANGED <<mem, fd_of, owner, fd_size, exit, kernel, thread, calls>>

RegisterLink(a) ==
    /\ At(a, "link")
    /\ mem' = list_add_tail(mem, op[a].node, ListHead)
    /\ Proceed(a, "count")
    /\ UNCHANGED <<used, fd_of, owner, fd_size, exit, kernel, thread, calls>>

(* event_unregister *)

\* the first node of the list with this descriptor, whoever registered it
Found(fd) ==
    LET walk == list_for_each(mem, ListHead)
    IN  {n \in Block : \E i \in DOMAIN walk :
            /\ walk[i] = n /\ fd_of[n] = fd
            /\ \A j \in 1 .. i-1 : fd_of[walk[j]] # fd}

\* A callback that unregisters the descriptor it is called for frees the node
\* whose next word the dispatch loop reads when it returns, and an application
\* thread may free it at any time: the callers that survive unregister from
\* callbacks, and only other descriptors than their own.
MayUnregister(a, fd) == a \in Poll /\ fd # ev[a]

\* nothing is done for a descriptor that is not in the set
UnregisterCtl(a, e, fd) ==
    /\ BeginCall(a, e)
    /\ MayUnregister(a, fd)
    /\ fd \in interest[e]
    /\ interest' = [interest EXCEPT ![e] = @ \ {fd}]
    /\ \E n \in Found(fd) :
          op' = [op EXCEPT ![a] = [stage |-> "unlink", ep |-> e, node |-> n,
                                   step |-> -1, size |-> 0]]
    /\ UNCHANGED <<mem, used, fd_of, owner, fd_size, exit, open, ready, thread>>

\* mutant: the node is freed in the list
UnregisterUnlink_InList(a) ==
    /\ At(a, "unlink")
    /\ used' = used \ {op[a].node}
    /\ Proceed(a, "count")
    /\ UNCHANGED <<mem, fd_of, owner, fd_size, exit, kernel, thread, calls>>

UnregisterUnlink(a) ==
    /\ At(a, "unlink")
    /\ mem' = list_del(mem, op[a].node)
    /\ used' = used \ {op[a].node}
    /\ Proceed(a, "count")
    /\ UNCHANGED <<fd_of, owner, fd_size, exit, kernel, thread, calls>>

(* et->fd_size++ and et->fd_size--: a read, then a write *)

CountRead(a) ==
    /\ At(a, "count")
    /\ op' = [op EXCEPT ![a].stage = "store", ![a].size = fd_size[op[a].ep]]
    /\ UNCHANGED <<mem, used, fd_of, owner, fd_size, exit, kernel, thread, calls>>

CountWrite(a) ==
    /\ At(a, "store")
    /\ fd_size' = [fd_size EXCEPT ![op[a].ep] = op[a].size + op[a].step]
    /\ Return(a)
    /\ UNCHANGED <<mem, used, fd_of, owner, exit, kernel, thread, calls>>

event_poll_exit(e) ==
    /\ exit' = [exit EXCEPT ![e] = TRUE]
    /\ UNCHANGED <<mem, used, fd_of, owner, fd_size, kernel, thread, op, calls>>

-----------------------------------------------------------------------------
(* event_poll_thread *)

Quiet == <<mem, used, fd_of, owner, exit, op, calls>>

Goto(e, l) == pc' = [pc EXCEPT ![e] = l]

\* "wait": the loop on fd_size == 0 does not look at exit
Wait(e) ==
    /\ pc[e] = "wait" /\ fd_size[e] # 0
    /\ Goto(e, "loop")
    /\ UNCHANGED <<Quiet, fd_size, kernel, batch, ev, p>>

Loop(e) ==
    /\ pc[e] = "loop"
    /\ Goto(e, IF exit[e] THEN "close" ELSE "poll")
    /\ UNCHANGED <<Quiet, fd_size, kernel, batch, ev, p>>

\* all that is readable: there are no more descriptors than events[] holds
EpollWait(e) ==
    /\ pc[e] = "poll"
    /\ ready \cap interest[e] # {}
    /\ batch' = [batch EXCEPT ![e] = ready \cap interest[e]]
    /\ Goto(e, "batch")
    /\ UNCHANGED <<Quiet, fd_size, kernel, ev, p>>

\* nothing within 500 ms, or a signal (EINTR)
EpollTimeout(e) ==
    /\ pc[e] = "poll"
    /\ ready \cap interest[e] = {}
    /\ Goto(e, "loop")
    /\ UNCHANGED <<Quiet, fd_size, kernel, batch, ev, p>>

\* any other failure ends the loop
EpollFails(e) ==
    /\ pc[e] = "poll"
    /\ Goto(e, "close")
    /\ UNCHANGED <<Quiet, fd_size, kernel, batch, ev, p>>

\* the next event of the batch, in any order
NextEvent(e) ==
    /\ pc[e] = "batch"
    /\ \E fd \in batch[e] :
          /\ ev' = [ev EXCEPT ![e] = fd]
          /\ batch' = [batch EXCEPT ![e] = @ \ {fd}]
    /\ p' = [p EXCEPT ![e] = mem.next[ListHead]]
    /\ Goto(e, "scan")
    /\ UNCHANGED <<Quiet, fd_size, kernel>>

\* mutant: back to epoll_wait without the test of exit
BatchDone_NoExit(e) ==
    /\ pc[e] = "batch" /\ batch[e] = {}
    /\ Goto(e, IF fd_size[e] <= 0 THEN "wait" ELSE "poll")
    /\ UNCHANGED <<Quiet, fd_size, kernel, batch, ev, p>>

BatchDone(e) ==
    /\ pc[e] = "batch" /\ batch[e] = {}
    /\ Goto(e, IF fd_size[e] <= 0 THEN "wait" ELSE "loop")
    /\ UNCHANGED <<Quiet, fd_size, kernel, batch, ev, p>>

\* list_for_each_entry: the next word is read after the visit
ScanOn(e) ==
    /\ pc[e] = "scan"
    /\ \/ /\ p[e] = ListHead
          /\ Goto(e, "batch")
          /\ UNCHANGED p
       \/ /\ p[e] # ListHead /\ fd_of[p[e]] # ev[e]
          /\ p' = [p EXCEPT ![e] = mem.next[p[e]]]
          /\ UNCHANGED pc
    /\ UNCHANGED <<Quiet, fd_size, kernel, batch, ev>>

ScanHit(e) ==
    /\ pc[e] = "scan"
    /\ p[e] # ListHead /\ fd_of[p[e]] = ev[e]
    /\ Goto(e, "call")
    /\ UNCHANGED <<Quiet, fd_size, kernel, batch, ev, p>>

\* the callback returns, having read all there was or not
CallbackReturns(e) ==
    /\ pc[e] = "call" /\ op[e] = Idle
    /\ ready' \in {ready, ready \ {ev[e]}}
    /\ p' = [p EXCEPT ![e] = mem.next[p[e]]]
    /\ Goto(e, "scan")
    /\ UNCHANGED <<Quiet, fd_size, interest, open, batch, ev>>

\* close(ep->epfd); ep->fd_size = 0
Close(e) ==
    /\ pc[e] = "close"
    /\ interest' = [interest EXCEPT ![e] = {}]
    /\ fd_size' = [fd_size EXCEPT ![e] = 0]
    /\ Goto(e, "closed")
    /\ UNCHANGED <<Quiet, open, ready, batch, ev, p>>

-----------------------------------------------------------------------------
(* The files behind the descriptors. *)

Arrive(fd) ==
    /\ fd \in open \ ready
    /\ ready' = ready \cup {fd}
    /\ UNCHANGED <<Quiet, fd_size, interest, open, thread>>

\* an application closes a descriptor that it does not have registered; the
\* number may be given out again
CloseFile(fd) ==
    /\ fd \in open /\ \A n \in used : fd_of[n] # fd
    /\ \A a \in Actor : op[a] # Idle => fd_of[op[a].node] # fd
    /\ open' = open \ {fd} /\ ready' = ready \ {fd}
    /\ UNCHANGED <<Quiet, fd_size, interest, thread>>

OpenFile(fd) ==
    /\ fd \notin open
    /\ open' = open \cup {fd}
    /\ UNCHANGED <<Quiet, fd_size, interest, ready, thread>>

-----------------------------------------------------------------------------
CallStep(a) == \/ RegisterCtl(a) \/ RegisterFails(a) \/ RegisterLink(a)
               \/ UnregisterUnlink(a) \/ CountRead(a) \/ CountWrite(a)

Thread(e) == \/ Wait(e) \/ Loop(e) \/ EpollWait(e) \/ EpollTimeout(e)
             \/ EpollFails(e) \/ NextEvent(e) \/ BatchDone(e) \/ ScanOn(e)
             \/ ScanHit(e) \/ CallbackReturns(e) \/ Close(e)

Step ==
    \/ \E a \in Actor, e \in Poll, fd \in Fd :
          RegisterBegin(a, e, fd) \/ UnregisterCtl(a, e, fd)
    \/ \E a \in Actor : CallStep(a)
    \/ \E e \in Poll : Thread(e) \/ event_poll_exit(e)
    \/ \E fd \in Fd : Arrive(fd) \/ CloseFile(fd) \/ OpenFile(fd)

Crash == \E a \in Actor, e \in Poll : RegisterWithoutMemory(a, e)

Next == alive /\ ((Step /\ UNCHANGED alive) \/ Crash)

Spec == Init /\ [][Next]_vars

\* the threads are scheduled while the process runs, and callbacks return
Fairness ==
    /\ \A e \in Poll : WF_vars(alive /\ Thread(e) /\ UNCHANGED alive)
    /\ \A a \in Actor : WF_vars(alive /\ CallStep(a) /\ UNCHANGED alive)

\* The counter of a loop has no lock: of two calls at once, one update may be
\* lost.  The callers that keep the books begin a call when no other is open.
OneCall == \A a, b \in Actor : op[a] # Idle /\ op[b] # Idle => a = b

OneCallSpec == Init /\ [][Next /\ OneCall']_vars /\ Fairness

-----------------------------------------------------------------------------
(***************************************************************************)
(* The dispatch loop never stands on a node that was freed, and calls the  *)
(* callback of an allocated node, for the descriptor of the event, of a    *)
(* file that is open.                                                      *)
(***************************************************************************)
DispatchSafe ==
    \A e \in Poll :
        /\ pc[e] = "scan" => p[e] \in used \cup {ListHead}
        /\ pc[e] = "call" => p[e] \in used /\ ev[e] \in open

(***************************************************************************)
(* The three books agree whenever no call is in progress: fd_size, the     *)
(* nodes of an event_poll_t in the list, and its epoll set; no failure of  *)
(* a call leaves a node without its descriptor or the other way round.     *)
(* The callers keep OneCall.                                               *)
(***************************************************************************)
BooksAgree ==
    LET walk == list_for_each(mem, ListHead)
        listed == {walk[i] : i \in DOMAIN walk}
    IN  (\A a \in Actor : op[a] = Idle) =>
           /\ listed = used
           /\ \A e \in Poll : pc[e] # "closed" =>
                 LET nodes == {n \in used : owner[n] = e}
                 IN  /\ fd_size[e] = Cardinality(nodes)
                     /\ fd_size[e] = Cardinality(interest[e])
                     /\ interest[e] = {fd_of[n] : n \in nodes}

(***************************************************************************)
(* A readable descriptor of the epoll set is dispatched, or stops being    *)
(* readable or registered: an event that is reported before event_register *)
(* has listed the node is not lost, because epoll reports it again.  The   *)
(* exceptions are a loop that has ended, at its exit or because epoll_wait *)
(* failed, and a process that has crashed for want of memory.              *)
(***************************************************************************)
ReadyIsDispatched ==
    \A e \in Poll, fd \in Fd :
        fd \in ready \cap interest[e]
        ~> \/ pc[e] = "call" /\ ev[e] = fd
           \/ fd \notin ready \cap interest[e]
           \/ pc[e] = "closed"
           \/ ~alive

(***************************************************************************)
(* event_poll_exit ends a loop that has descriptors, however busy they     *)
(* are: the thread closes its epoll descriptor.  (With none left it stays  *)
(* in the wait for fd_size, which does not look at exit.)                  *)
(***************************************************************************)
ExitIsHonoured ==
    \A e \in Poll : exit[e] ~> (pc[e] = "closed" \/ fd_size[e] = 0 \/ ~alive)

(***************************************************************************)
(* The loop serves what it is given: data on its descriptors, and the      *)
(* request to exit, with the exceptions of its two parts.  The callers     *)
(* keep OneCall.                                                           *)
(***************************************************************************)
LoopServes == ReadyIsDispatched /\ ExitIsHonoured
=============================================================================
