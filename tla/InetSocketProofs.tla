--------------------------- MODULE InetSocketProofs ---------------------------
(***************************************************************************)
(* No path through inetConnect, inetListen and inetBind loses a socket,    *)
(* apart from the one in inetPassiveSocket that the model sets aside, for  *)
(* any number of addresses, descriptors and calls.                         *)
(*                                                                         *)
(* SocketsAccounted speaks of the moments between calls.  Its              *)
(* strengthening says at each point of a call which socket is neither the  *)
(* caller's nor dropped: the one the call itself holds (Mine).             *)
(***************************************************************************)
EXTENDS InetSocket, TLAPS

InHand == {"connect", "select", "option", "bind", "listen", "close"}

\* the call has a socket of its own
Holding == \/ pc \in InHand
           \/ pc = "free" /\ left # 0
           \/ pc = "return" /\ result # None

Mine == IF Holding THEN {sfd} ELSE {}

Accounts ==
    /\ open = (held \cup dropped) \cup Mine
    /\ held \cap dropped = {}
    /\ Holding => sfd \in Fd /\ sfd \notin held \cup dropped

\* what is known of the socket in hand
Progress ==
    /\ pc \in InHand => left # 0
    /\ pc \in {"connect", "option", "bind", "listen"} => sfd \notin nonblock
    /\ pc = "select" => sfd \in nonblock \ stuck
    /\ pc \in {"connect", "select"} => fn = "inetConnect"
    /\ pc \in {"option", "bind"} => fn # "inetConnect"
    /\ pc = "listen" => fn = "inetListen"
    /\ (pc = "free" /\ left # 0) \/ (pc = "return" /\ result # None) =>
          /\ sfd \in nonblock <=> fn = "inetConnect" /\ sfd \in stuck
          /\ peer[sfd] = IF fn = "inetConnect" THEN "connected"
                         ELSE IF fn = "inetListen" THEN "listening" ELSE "bound"
    /\ pc = "return" /\ result # None => result = sfd

IInv == TypeOK /\ Accounts /\ Progress

USE NoneAssumption, BoundAssumption DEF InHand, Function

LEMMA InitInv == Init => IInv
<1> SUFFICES ASSUME Init PROVE IInv
    OBVIOUS
<1>1. TypeOK
  <2>1. peer \in [Fd -> {"none", "connected", "bound", "listening"}] BY DEF Init
  <2>2. left \in 0 .. MaxAddr /\ calls \in 0 .. MaxCalls BY DEF Init
  <2>3. /\ open \subseteq Fd /\ nonblock \subseteq open /\ stuck \subseteq nonblock
        /\ held \subseteq open /\ dropped \subseteq open
        BY Zenon DEF Init
  <2>4. /\ fn \in Function /\ sfd \in Fd \cup {None} /\ result \in Fd \cup {None}
        /\ addrinfo \in BOOLEAN
        BY Zenon DEF Init
  <2> QED BY <2>1, <2>2, <2>3, <2>4 DEF Init, TypeOK
<1>2. pc = "idle" /\ ~Holding BY DEF Init, Holding
<1>3. Accounts BY <1>2 DEF Init, Accounts, Mine
<1>4. Progress BY <1>2 DEF Progress
<1> QED BY <1>1, <1>3, <1>4 DEF IInv

\* the steps before there is a socket, and those after the call
LEMMA OutsideInv ==
    ASSUME IInv,
           \/ \E f \in Function : Call(f)
           \/ Resolve \/ ResolveFails \/ Socket \/ SocketFails \/ AddressesExhausted
           \/ Free \/ Return
           \/ \E d \in Fd : CallerCloses(d)
    PROVE  IInv'
<1> USE DEF IInv, TypeOK, Accounts, Progress, Holding, Mine, sockets, books, Closed, SetOrNot
<1>1. ASSUME NEW f \in Function, Call(f) PROVE IInv'
  <2>1. calls' \in 0 .. MaxCalls BY <1>1 DEF Call
  <2>2. TypeOK' BY <1>1, <2>1 DEF Call
  <2>3. (Accounts /\ Progress)' BY <1>1 DEF Call
  <2> QED BY <2>2, <2>3
<1>2. CASE Resolve BY <1>2 DEF Resolve
<1>3. CASE ResolveFails BY <1>3 DEF ResolveFails
<1>4. CASE Socket BY <1>4 DEF Socket
<1>5. CASE SocketFails BY <1>5 DEF SocketFails
<1>6. CASE AddressesExhausted BY <1>6 DEF AddressesExhausted
<1>7. CASE Free BY <1>7 DEF Free
<1>8. CASE Return BY <1>8 DEF Return
<1>9. ASSUME NEW d \in Fd, CallerCloses(d) PROVE IInv'
      BY <1>9 DEF CallerCloses
<1> QED BY <1>1, <1>2, <1>3, <1>4, <1>5, <1>6, <1>7, <1>8, <1>9

LEMMA ConnectInv ==
    ASSUME IInv,
           \/ ConnectPending \/ ConnectAtOnce \/ ConnectFails
           \/ SelectWritable \/ SelectBoth \/ SelectFails
    PROVE  IInv'
<1> USE DEF IInv, TypeOK, Accounts, Progress, Holding, Mine, sockets, books, Closed, SetOrNot
<1>1. CASE ConnectPending BY <1>1 DEF ConnectPending
<1>2. CASE ConnectAtOnce BY <1>2 DEF ConnectAtOnce
<1>3. CASE ConnectFails BY <1>3 DEF ConnectFails
<1>4. CASE SelectWritable
  <2> USE <1>4 DEF SelectWritable, ClearOrNot
  <2>1. nonblock' \subseteq open' /\ stuck' \subseteq nonblock'
        /\ (sfd \in nonblock' <=> sfd \in stuck')
        OBVIOUS
  <2>2. peer' \in [Fd -> {"none", "connected", "bound", "listening"}]
        /\ peer'[sfd] = "connected"
        OBVIOUS
  <2>3. TypeOK' BY <2>1, <2>2
  <2>4. (Accounts /\ Progress)' BY <2>1, <2>2
  <2> QED BY <2>3, <2>4
<1>5. CASE SelectBoth BY <1>5 DEF SelectBoth
<1>6. CASE SelectFails BY <1>6 DEF SelectFails
<1> QED BY <1>1, <1>2, <1>3, <1>4, <1>5, <1>6

LEMMA PassiveInv ==
    ASSUME IInv,
           Option \/ OptionFails \/ Bind \/ BindFails \/ Listen \/ ListenFails \/ Close
    PROVE  IInv'
<1> USE DEF IInv, TypeOK, Accounts, Progress, Holding, Mine, sockets, books, Closed, SetOrNot
<1>1. CASE Option BY <1>1 DEF Option
<1>2. CASE OptionFails BY <1>2 DEF OptionFails
<1>3. CASE Bind BY <1>3 DEF Bind
<1>4. CASE BindFails BY <1>4 DEF BindFails
<1>5. CASE Listen BY <1>5 DEF Listen
<1>6. CASE ListenFails BY <1>6 DEF ListenFails
<1>7. CASE Close BY <1>7 DEF Close
<1> QED BY <1>1, <1>2, <1>3, <1>4, <1>5, <1>6, <1>7

LEMMA StutterInv == IInv /\ UNCHANGED vars => IInv'
  BY DEF IInv, TypeOK, Accounts, Progress, Holding, Mine, vars, sockets, books

LEMMA Invariance == Spec => []IInv
<1>1. IInv /\ [Next]_vars => IInv'
  BY OutsideInv, ConnectInv, PassiveInv, StutterInv DEF Next
<1> QED BY InitInv, <1>1, PTL DEF Spec

(***************************************************************************)
(* Between calls the open sockets are those the caller holds and those     *)
(* whose listen failed, in whatever order addresses and system calls fail. *)
(***************************************************************************)
THEOREM NoSocketLost == Spec => []SocketsAccounted
<1>1. IInv => SocketsAccounted
  BY DEF IInv, Accounts, Holding, Mine, SocketsAccounted
<1> QED BY Invariance, <1>1, PTL

(***************************************************************************)
(* The socket that a call returns is open, new to the caller, connected,   *)
(* bound or listening as the function promises, and blocking unless it is  *)
(* a connected one whose clr_fd_flag failed.                               *)
(***************************************************************************)
THEOREM ReturnedIsUsable == Spec => []ReturnedIsReady
<1>1. IInv => ReturnedIsReady
  BY DEF IInv, TypeOK, Accounts, Progress, Holding, Mine, ReturnedIsReady
<1> QED BY Invariance, <1>1, PTL

-----------------------------------------------------------------------------
\* the list of getaddrinfo is there from its answer to the end of the walk only
Freed == pc \in {"idle", "resolve", "return"} => ~addrinfo

LEMMA FreedInv == Spec => []Freed
<1>1. Init => Freed BY DEF Init, Freed
<1>2. Freed /\ [Next]_vars => Freed'
  <2> SUFFICES ASSUME Freed, [Next]_vars PROVE Freed'
      OBVIOUS
  <2> USE DEF Freed
  <2>1. CASE \E f \in Function : Call(f) BY <2>1 DEF Call
  <2>2. CASE Resolve \/ ResolveFails \/ Socket \/ SocketFails \/ AddressesExhausted
        BY <2>2 DEF Resolve, ResolveFails, Socket, SocketFails, AddressesExhausted
  <2>3. CASE ConnectPending \/ ConnectAtOnce \/ ConnectFails
        BY <2>3 DEF ConnectPending, ConnectAtOnce, ConnectFails
  <2>4. CASE SelectWritable \/ SelectBoth \/ SelectFails
        BY <2>4 DEF SelectWritable, ClearOrNot, SelectBoth, SelectFails
  <2>5. CASE Option \/ OptionFails \/ Bind \/ BindFails \/ Listen \/ ListenFails
        BY <2>5 DEF Option, OptionFails, Bind, BindFails, Listen, ListenFails
  <2>6. CASE Close \/ Free \/ Return BY <2>6 DEF Close, Free, Return
  <2>7. CASE \E d \in Fd : CallerCloses(d) BY <2>7 DEF CallerCloses
  <2>8. CASE UNCHANGED vars BY <2>8 DEF vars
  <2> QED BY <2>1, <2>2, <2>3, <2>4, <2>5, <2>6, <2>7, <2>8 DEF Next
<1> QED BY <1>1, <1>2, PTL DEF Spec

(***************************************************************************)
(* All that is asked of the calls, whichever system calls fail: no socket  *)
(* is lost but those whose listen failed, no address list is lost, and     *)
(* what is returned can be used, in blocking mode but for a connected      *)
(* socket whose clr_fd_flag failed.                                        *)
(***************************************************************************)
THEOREM CallsAreSound == Spec => []CallsSound
<1>1. SocketsAccounted /\ ReturnedIsReady /\ Freed => CallsSound
  BY DEF Freed, AddrinfoFreed, CallsSound
<1> QED BY NoSocketLost, ReturnedIsUsable, FreedInv, <1>1, PTL
=============================================================================
